---- MODULE Spec2Model ----
(***************************************************************************)
(* Document field extraction (extract_fields = _parse_fields) and schema   *)
(* inference (infer_schema = _generate_fields_from_text) of                *)
(* backend/app/services/ocr_service.py.                                    *)
(*                                                                         *)
(* Texts are TLA+ strings; a character is a string of length one.  The     *)
(* alphabet is ASCII: a Devanagari code point of the source is written "~" *)
(* (a character outside [a-z0-9\s], like every Devanagari code point), the *)
(* only line break is "\n", and the en and em dash of the hyphen pattern   *)
(* do not occur.  Dictionaries are sequences of <<key, value>> pairs in    *)
(* insertion order, as a Python dict iterates.                             *)
(***************************************************************************)
EXTENDS Integers, Sequences, FiniteSets, TLC

\* ------------------------------------------------------------------------
\* Characters and the string methods the code uses

DIGITS == {"0", "1", "2", "3", "4", "5", "6", "7", "8", "9"}

LOWER == {"a", "b", "c", "d", "e", "f", "g", "h", "i", "j", "k", "l", "m",
          "n", "o", "p", "q", "r", "s", "t", "u", "v", "w", "x", "y", "z"}

UPPER == {"A", "B", "C", "D", "E", "F", "G", "H", "I", "J", "K", "L", "M",
          "N", "O", "P", "Q", "R", "S", "T", "U", "V", "W", "X", "Y", "Z"}

LETTERS == LOWER \cup UPPER

ALNUM == LETTERS \cup DIGITS

\* \w
WORDCH == ALNUM \cup {"_"}

\* \s, and the characters str.strip() removes
WHITESPACE == {" ", "\t", "\n", "\r"}

Ch(s, k) == IF k >= 1 /\ k <= Len(s) THEN SubSeq(s, k, k) ELSE ""

UpperAlphabet == "ABCDEFGHIJKLMNOPQRSTUVWXYZ"

LowerAlphabet == "abcdefghijklmnopqrstuvwxyz"

LowerOf == [c \in UPPER |->
              Ch(LowerAlphabet, CHOOSE k \in 1..26 : Ch(UpperAlphabet, k) = c)]

UpperOf == [c \in LOWER |->
              Ch(UpperAlphabet, CHOOSE k \in 1..26 : Ch(LowerAlphabet, k) = c)]

ToLower(c) == IF c \in UPPER THEN LowerOf[c] ELSE c

ToUpper(c) == IF c \in LOWER THEN UpperOf[c] ELSE c

\* "".join(parts), by halves
RECURSIVE ConcatRange(_, _, _)
ConcatRange(parts, a, b) ==
  IF a > b THEN ""
  ELSE IF a = b THEN parts[a]
  ELSE ConcatRange(parts, a, (a + b) \div 2)
         \o ConcatRange(parts, ((a + b) \div 2) + 1, b)

Concat(parts) == ConcatRange(parts, 1, Len(parts))

\* str.lower()
lower(s) == Concat([k \in 1..Len(s) |-> ToLower(Ch(s, k))])

Min(S) == CHOOSE x \in S : \A y \in S : x <= y

Max(S) == CHOOSE x \in S : \A y \in S : x >= y

MinOf(a, b) == IF a <= b THEN a ELSE b

\* every character of s[a..b] is in S (false when the range leaves s)
AllIn(s, a, b, S) == \A k \in a..b : Ch(s, k) \in S

\* end of the longest run of characters of S that starts at p (p - 1: none)
RunEnd(s, p, S) ==
  IF p > Len(s) THEN p - 1
  ELSE CHOOSE e \in (p - 1)..Len(s) :
         /\ e = Len(s) \/ Ch(s, e + 1) \notin S
         /\ \A f \in p..e : Ch(s, f) \in S

\* start of the longest run of characters of S that ends at p (p + 1: none)
RunStart(s, p, S) ==
  IF p < 1 THEN p + 1
  ELSE CHOOSE a \in 1..(p + 1) :
         /\ a = 1 \/ Ch(s, a - 1) \notin S
         /\ \A f \in a..p : Ch(s, f) \in S

\* str.strip(chars)
StripChars(s, S) ==
  LET a == RunEnd(s, 1, S) + 1
      b == RunStart(s, Len(s), S) - 1
  IN IF a > b THEN "" ELSE SubSeq(s, a, b)

\* str.strip()
strip(s) == StripChars(s, WHITESPACE)

\* str.rstrip(chars)
rstrip(s, S) == SubSeq(s, 1, RunStart(s, Len(s), S) - 1)

\* sub occurs in s at position p
At(s, p, sub) ==
  /\ p >= 1
  /\ p + Len(sub) - 1 <= Len(s)
  /\ SubSeq(s, p, p + Len(sub) - 1) = sub

\* the `in` operator on strings
Contains(s, sub) == \E p \in 1..(Len(s) - Len(sub) + 1) : At(s, p, sub)

\* str.find(sub) + 1: the first position of sub in s, 0 when absent
Find(s, sub) ==
  IF Contains(s, sub)
  THEN Min({p \in 1..(Len(s) - Len(sub) + 1) : At(s, p, sub)})
  ELSE 0

\* \b at the gap before position i
WordBoundary(s, k) == (Ch(s, k - 1) \in WORDCH) # (Ch(s, k) \in WORDCH)

\* s without the characters outside S
Keep(s, S) == Concat([k \in 1..Len(s) |-> IF Ch(s, k) \in S THEN Ch(s, k) ELSE ""])

\* s without the characters of S
Drop(s, S) == Concat([k \in 1..Len(s) |-> IF Ch(s, k) \in S THEN "" ELSE Ch(s, k)])

\* end of the longest run of characters outside S that starts at p
RunEndNot(s, p, S) ==
  IF p > Len(s) THEN p - 1
  ELSE CHOOSE e \in (p - 1)..Len(s) :
         /\ e = Len(s) \/ Ch(s, e + 1) \in S
         /\ \A f \in p..e : Ch(s, f) \notin S

SlugChars == LOWER \cup DIGITS

\* re.sub(r"[^a-z0-9]+", "_", s): every run of other characters becomes one "_"
SlugRuns(s) ==
  Concat([k \in 1..Len(s) |->
            IF Ch(s, k) \in SlugChars THEN Ch(s, k)
            ELSE IF k > 1 /\ Ch(s, k - 1) \notin SlugChars THEN "" ELSE "_"])

\* ------------------------------------------------------------------------
\* The canonical field dictionary, in declaration order

FIELD_LABEL_MAPPINGS == <<
    <<"name", <<"name", "full name", "applicant name", "applicant's name", "candidate name", "your name", "person name", "member name", "holder name", "account holder", "~~~", "~~~~ ~~~">> >>,
    <<"full_name", <<"full name", "complete name", "name in full", "name (in full)">> >>,
    <<"first_name", <<"first name", "given name", "forename", "fname", "~~~~ ~~~">> >>,
    <<"last_name", <<"last name", "surname", "family name", "lname", "~~~~~">> >>,
    <<"middle_name", <<"middle name", "mname">> >>,
    <<"father_name", <<"father's name", "father name", "father", "s/o", "son of", "d/o", "daughter of", "c/o", "care of", "guardian name", "guardian's name", "~~~~ ~~ ~~~", "~~~~", "~~~~~~~">> >>,
    <<"mother_name", <<"mother's name", "mother name", "mother", "~~~~ ~~ ~~~", "~~~~">> >>,
    <<"husband_name", <<"husband's name", "husband name", "husband", "w/o", "wife of", "~~~ ~~ ~~~">> >>,
    <<"spouse_name", <<"spouse name", "spouse's name", "spouse", "partner name">> >>,
    <<"email", <<"email", "e-mail", "email address", "email id", "mail", "~~~~">> >>,
    <<"phone", <<"phone", "phone number", "telephone", "tel", "contact", "landline", "~~~">> >>,
    <<"mobile", <<"mobile", "mobile number", "mobile no", "mob", "cell", "cellphone", "~~~~~~">> >>,
    <<"mobile_number", <<"mobile number", "mobile no", "mob no", "contact number", "contact no">> >>,
    <<"address", <<"address", "full address", "residential address", "correspondence address", "permanent address", "present address", "~~~", "~~~~~">> >>,
    <<"address_line1", <<"address line 1", "address 1", "house no", "flat no", "building", "door no", "plot no">> >>,
    <<"address_line2", <<"address line 2", "address 2", "street", "road", "lane", "locality", "area">> >>,
    <<"city", <<"city", "town", "village", "place", "~~~", "~~~~">> >>,
    <<"district", <<"district", "dist", "~~~~">> >>,
    <<"state", <<"state", "province", "~~~~~", "~~~~~~">> >>,
    <<"pincode", <<"pincode", "pin code", "pin", "postal code", "zip", "zip code", "~~~~~~">> >>,
    <<"country", <<"country", "nation", "~~~">> >>,
    <<"aadhaar_number", <<"aadhaar", "aadhar", "aadhaar number", "aadhar number", "aadhaar no", "aadhar no", "uid", "uidai", "~~~~", "~~~~ ~~~~~~", "aadhaar card", "aadhar card", "unique id">> >>,
    <<"pan_number", <<"pan", "pan number", "pan no", "pan card", "permanent account number", "~~~">> >>,
    <<"voter_id", <<"voter id", "voter id no", "epic", "epic no", "election card", "~~~~~~ ~~~~~">> >>,
    <<"passport_number", <<"passport", "passport number", "passport no", "~~~~~~~~">> >>,
    <<"driving_license", <<"driving license", "driving licence", "dl", "dl no", "license no", "licence no", "~~~~~~~~~ ~~~~~~~">> >>,
    <<"ration_card", <<"ration card", "ration card no", "bpl card", "~~~~ ~~~~~">> >>,
    <<"date_of_birth", <<"date of birth", "dob", "d.o.b", "birth date", "birthday", "born on", "~~~~ ~~~~", "~~~~~~~">> >>,
    <<"age", <<"age", "~~~", "~~~~">> >>,
    <<"gender", <<"gender", "sex", "~~~~">> >>,
    <<"blood_group", <<"blood group", "blood type", "~~~~ ~~~~">> >>,
    <<"marital_status", <<"marital status", "married", "single", "~~~~~~~ ~~~~~~">> >>,
    <<"nationality", <<"nationality", "~~~~~~~~~~~">> >>,
    <<"religion", <<"religion", "~~~~">> >>,
    <<"caste", <<"caste", "category", "~~~~", "~~~~">> >>,
    <<"occupation", <<"occupation", "profession", "job", "employment", "work", "~~~~~~~">> >>,
    <<"education", <<"education", "qualification", "educational qualification", "~~~~~~", "~~~~~~~">> >>,
    <<"company", <<"company", "organization", "employer", "firm", "office", "~~~~~">> >>,
    <<"designation", <<"designation", "post", "position", "title", "~~">> >>,
    <<"annual_income", <<"annual income", "yearly income", "income", "salary", "~~~~~~~ ~~">> >>,
    <<"account_number", <<"account number", "account no", "a/c no", "bank account", "~~~~ ~~~~~~">> >>,
    <<"ifsc", <<"ifsc", "ifsc code", "branch code", "~~~~~~~~">> >>,
    <<"bank_name", <<"bank name", "bank", "~~~~ ~~ ~~~">> >>,
    <<"application_date", <<"date", "application date", "dated", "~~~~~", "~~~~~~">> >>,
    <<"place", <<"place", "~~~~~">> >>,
    <<"signature", <<"signature", "sign", "~~~~~~~~~">> >>
>>

\* _normalize_label: lower-case, drop everything but [a-z0-9\s], strip
normalize_label(label) ==
  strip(Keep(lower(label), LOWER \cup DIGITS \cup WHITESPACE))

\* the dictionary with every alias normalized, as the two scans compare it
NormalizedMappings ==
  [e \in 1..Len(FIELD_LABEL_MAPPINGS) |->
     [v \in 1..Len(FIELD_LABEL_MAPPINGS[e][2]) |->
        normalize_label(FIELD_LABEL_MAPPINGS[e][2][v])]]

FieldName(e) == FIELD_LABEL_MAPPINGS[e][1]

\* the slug of a label no entry matches
LabelSlug(normalized) ==
  LET slug == StripChars(SlugRuns(normalized), {"_"})
  IN IF slug = "" THEN "unknown" ELSE slug

\* a test that takes a partial match of a label of any length
AliasMatches_anylength(normalized, alias) ==
  \/ normalized = alias
  \/ Contains(normalized, alias)
  \/ Contains(alias, normalized)

\* the test _find_canonical_field applies to one alias
AliasMatches(normalized, alias) ==
  \/ normalized = alias
  \/ /\ Len(normalized) > 3
     /\ (Contains(normalized, alias) \/ Contains(alias, normalized))

EntryMatches(normalized, e) ==
  \E v \in 1..Len(NormalizedMappings[e]) :
     AliasMatches(normalized, NormalizedMappings[e][v])

\* the first entry, in declaration order, with a matching alias (0: none)
FirstMatchingEntry(normalized) ==
  IF \E e \in 1..Len(FIELD_LABEL_MAPPINGS) : EntryMatches(normalized, e)
  THEN CHOOSE e \in 1..Len(FIELD_LABEL_MAPPINGS) :
         /\ EntryMatches(normalized, e)
         /\ \A f \in 1..(e - 1) : ~EntryMatches(normalized, f)
  ELSE 0

\* _find_canonical_field: the first entry with a matching alias, or the slug
find_canonical_field(label) ==
  LET normalized == normalize_label(label)
      e == FirstMatchingEntry(normalized)
  IN IF e > 0 THEN FieldName(e) ELSE LabelSlug(normalized)

\* ------------------------------------------------------------------------
\* The compiled patterns.  A pattern P is given by PEnd(s, p): the end of
\* the match that starts at p, as the backtracking matcher finds it, or 0.

\* re.search: the leftmost start among the starts that match, 0 when none
Leftmost(starts) == IF starts = {} THEN 0 ELSE Min(starts)

\* AADHAAR_PATTERN  \b(\d{4}\s?\d{4}\s?\d{4})\b
AadhaarEnd(s, p) ==
  LET a == IF Ch(s, p + 4) \in WHITESPACE THEN p + 5 ELSE p + 4
      b == IF Ch(s, a + 4) \in WHITESPACE THEN a + 5 ELSE a + 4
  IN IF /\ WordBoundary(s, p)
        /\ AllIn(s, p, p + 3, DIGITS)
        /\ AllIn(s, a, a + 3, DIGITS)
        /\ AllIn(s, b, b + 3, DIGITS)
        /\ WordBoundary(s, b + 4)
     THEN b + 3 ELSE 0

AADHAAR_PATTERN(s) ==
  LET p == Leftmost({q \in 1..Len(s) : AadhaarEnd(s, q) > 0})
  IN IF p = 0 THEN <<>> ELSE <<SubSeq(s, p, AadhaarEnd(s, p))>>

\* PAN_PATTERN  \b([A-Z]{5}\d{4}[A-Z])\b
PanEnd(s, p) ==
  IF /\ WordBoundary(s, p)
     /\ AllIn(s, p, p + 4, UPPER)
     /\ AllIn(s, p + 5, p + 8, DIGITS)
     /\ Ch(s, p + 9) \in UPPER
     /\ WordBoundary(s, p + 10)
  THEN p + 9 ELSE 0

PAN_PATTERN(s) ==
  LET p == Leftmost({q \in 1..Len(s) : PanEnd(s, q) > 0})
  IN IF p = 0 THEN <<>> ELSE <<SubSeq(s, p, PanEnd(s, p))>>

\* PINCODE_PATTERN  \b(\d{6})\b
PincodeEnd(s, p) ==
  IF WordBoundary(s, p) /\ AllIn(s, p, p + 5, DIGITS) /\ WordBoundary(s, p + 6)
  THEN p + 5 ELSE 0

PINCODE_PATTERN(s) ==
  LET p == Leftmost({q \in 1..Len(s) : PincodeEnd(s, q) > 0})
  IN IF p = 0 THEN <<>> ELSE <<SubSeq(s, p, PincodeEnd(s, p))>>

\* EMAIL_RE  [a-zA-Z0-9_.+-]+@[a-zA-Z0-9-]+\.[a-zA-Z0-9-.]+
EmailLocal == ALNUM \cup {"_", ".", "+", "-"}

EmailDomain == ALNUM \cup {"-"}

EmailEnd(s, p) ==
  LET l == RunEnd(s, p, EmailLocal)
      d == RunEnd(s, l + 2, EmailDomain)
      t == RunEnd(s, d + 2, EmailDomain \cup {"."})
  IN IF /\ l >= p
        /\ Ch(s, l + 1) = "@"
        /\ d >= l + 2
        /\ Ch(s, d + 1) = "."
        /\ t >= d + 2
     THEN t ELSE 0

EMAIL_RE(s) ==
  LET p == Leftmost({q \in 1..Len(s) : EmailEnd(s, q) > 0})
  IN IF p = 0 THEN <<>> ELSE <<SubSeq(s, p, EmailEnd(s, p))>>

\* PHONE_RE  (?:\+?\d{1,3}[\s-]?)?(?:\d{10}|\d{3}[\s-]\d{3}[\s-]\d{4})
PhoneSep == WHITESPACE \cup {"-"}

\* the number proper, (?:\d{10}|\d{3}[\s-]\d{3}[\s-]\d{4}), at q
PhoneNumberEnd(s, q) ==
  IF AllIn(s, q, q + 9, DIGITS) THEN q + 9
  ELSE IF /\ AllIn(s, q, q + 2, DIGITS)
          /\ Ch(s, q + 3) \in PhoneSep
          /\ AllIn(s, q + 4, q + 6, DIGITS)
          /\ Ch(s, q + 7) \in PhoneSep
          /\ AllIn(s, q + 8, q + 11, DIGITS)
       THEN q + 11 ELSE 0

\* after \d{k} at a: the places the number may start, [\s-]? taken first
PhoneAfterDigits(s, a, k) ==
  IF ~AllIn(s, a, a + k - 1, DIGITS) THEN <<>>
  ELSE IF Ch(s, a + k) \in PhoneSep THEN <<a + k + 1, a + k>> ELSE <<a + k>>

\* after \+? at a: \d{1,3} is greedy, so three digits are tried first
PhoneAfterPlus(s, a) ==
  PhoneAfterDigits(s, a, 3) \o PhoneAfterDigits(s, a, 2) \o PhoneAfterDigits(s, a, 1)

\* the places the number may start for a match at p, in the matcher's order:
\* with the prefix (with "+" first), and last without it
PhoneStarts(s, p) ==
  (IF Ch(s, p) = "+" THEN PhoneAfterPlus(s, p + 1) ELSE <<>>)
    \o PhoneAfterPlus(s, p) \o <<p>>

\* the first of these places where the number matches decides the match
PhoneEnd(s, p) ==
  LET starts == PhoneStarts(s, p)
      ok == {n \in 1..Len(starts) : PhoneNumberEnd(s, starts[n]) > 0}
  IN IF Ch(s, p) \notin DIGITS \cup {"+"} \/ ok = {} THEN 0 ELSE PhoneNumberEnd(s, starts[Min(ok)])

PHONE_RE(s) ==
  LET p == Leftmost({q \in 1..Len(s) : PhoneEnd(s, q) > 0})
  IN IF p = 0 THEN <<>> ELSE <<SubSeq(s, p, PhoneEnd(s, p))>>

\* DOB_RE  (?:DOB|Date of Birth|D\.O\.B)[:\s]*
\*         ((?:\d{2}[/-]){2}\d{2,4}|\d{4}-\d{2}-\d{2}), IGNORECASE
DobTokens == <<"dob", "date of birth", "d.o.b">>

DateSep == {"/", "-"}

\* the date, at q: its end or 0
DobDateEnd(s, q) ==
  IF /\ AllIn(s, q, q + 1, DIGITS)
     /\ Ch(s, q + 2) \in DateSep
     /\ AllIn(s, q + 3, q + 4, DIGITS)
     /\ Ch(s, q + 5) \in DateSep
     /\ AllIn(s, q + 6, q + 7, DIGITS)
  THEN MinOf(RunEnd(s, q + 6, DIGITS), q + 9)
  ELSE IF /\ AllIn(s, q, q + 3, DIGITS)
          /\ Ch(s, q + 4) = "-"
          /\ AllIn(s, q + 5, q + 6, DIGITS)
          /\ Ch(s, q + 7) = "-"
          /\ AllIn(s, q + 8, q + 9, DIGITS)
       THEN q + 9 ELSE 0

\* where the date starts for a match at p (0: no label token at p)
DobDateStart(s, p) ==
  LET low == lower(SubSeq(s, p, MinOf(Len(s), p + 12)))
      toks == {i \in 1..Len(DobTokens) : At(low, 1, DobTokens[i])}
  IN IF Ch(s, p) \notin {"d", "D"} \/ toks = {} THEN 0
     ELSE RunEnd(s, p + Len(DobTokens[Min(toks)]), WHITESPACE \cup {":"}) + 1

DobEnd(s, p) ==
  IF DobDateStart(s, p) = 0 THEN 0 ELSE DobDateEnd(s, DobDateStart(s, p))

\* DOB_RE.search(s).group(1)
DOB_RE(s) ==
  LET p == Leftmost({q \in 1..Len(s) : DobEnd(s, q) > 0})
  IN IF p = 0 THEN <<>> ELSE <<SubSeq(s, DobDateStart(s, p), DobEnd(s, p))>>

\* ------------------------------------------------------------------------
\* Dictionaries: sequences of <<key, value>> in insertion order

Has(d, k) == \E n \in 1..Len(d) : d[n][1] = k

Get(d, k) == d[CHOOSE n \in 1..Len(d) : d[n][1] = k][2]

Keys(d) == {d[n][1] : n \in 1..Len(d)}

\* d[k] = v
SetItem(d, k, v) ==
  IF Has(d, k)
  THEN [n \in 1..Len(d) |-> IF d[n][1] = k THEN <<k, v>> ELSE d[n]]
  ELSE Append(d, <<k, v>>)

\* d[k] = v whether or not k is in d
SetIfAbsent_always(d, k, v) == SetItem(d, k, v)

\* if k not in d: d[k] = v
SetIfAbsent(d, k, v) == IF Has(d, k) THEN d ELSE SetItem(d, k, v)

\* d.update(other)
RECURSIVE UpdateFrom(_, _, _)
UpdateFrom(d, other, n) ==
  IF n > Len(other) THEN d
  ELSE UpdateFrom(SetItem(d, other[n][1], other[n][2]), other, n + 1)

\* ------------------------------------------------------------------------
\* Lines of a text

\* text.splitlines(): the pieces between line breaks, an empty last piece dropped
RECURSIVE SplitFrom(_, _)
SplitFrom(s, p) ==
  IF p > Len(s) THEN <<>>
  ELSE LET e == RunEndNot(s, p, {"\n"})
       IN <<SubSeq(s, p, e)>> \o SplitFrom(s, e + 2)

splitlines(s) == SplitFrom(s, 1)

NonEmpty(s) == s # ""

\* [ln.strip() for ln in text.splitlines() if ln.strip()]
Lines(text) ==
  LET ls == splitlines(text)
  IN SelectSeq([n \in 1..Len(ls) |-> strip(ls[n])], NonEmpty)

\* sep.join(parts)
Join(parts, sep) ==
  Concat([n \in 1..Len(parts) |->
            IF n < Len(parts) THEN parts[n] \o sep ELSE parts[n]])

\* ------------------------------------------------------------------------
\* Step 1: the pattern extractors

\* phone[-10:]
LastTen(s) == SubSeq(s, Len(s) - 9, Len(s))

extract_specific_values(text) ==
  LET aadhaar_match == AADHAAR_PATTERN(text)
      aadhaar == IF aadhaar_match = <<>> THEN ""
                 ELSE Drop(aadhaar_match[1], {" "})
      v1 == IF aadhaar_match # <<>> /\ Len(aadhaar) = 12
            THEN SetItem(<<>>, "aadhaar_number", aadhaar) ELSE <<>>
      pan_match == PAN_PATTERN(text)
      v2 == IF pan_match # <<>>
            THEN SetItem(v1, "pan_number", pan_match[1]) ELSE v1
      email_match == EMAIL_RE(text)
      v3 == IF email_match # <<>>
            THEN SetItem(v2, "email", lower(email_match[1])) ELSE v2
      phone_match == PHONE_RE(text)
      phone == IF phone_match = <<>> THEN ""
               ELSE Drop(phone_match[1], PhoneSep)
      v4 == IF phone_match # <<>> /\ Len(phone) >= 10
            THEN SetItem(v3, "mobile_number", LastTen(phone)) ELSE v3
  IN v4

\* ------------------------------------------------------------------------
\* Step 2: key-value lines

\* the separator classes of KEY_VALUE_PATTERNS, in order: [:]  [-]  [=]
KEY_VALUE_PATTERNS == <<{":"}, {"-"}, {"="}>>

\* a label of L characters fits ^(.+?)\s*[sep]\s*(.+)$
KeyValueFits(line, sep, L) ==
  LET j == RunEnd(line, L + 1, WHITESPACE) + 1
  IN Ch(line, j) \in sep /\ j < Len(line)

\* pattern.match(line): <<group(1), group(2)>> for the shortest label that
\* fits, <<>> when none does
KeyValueMatch(line, sep) ==
  LET fits == {L \in 1..(Len(line) - 2) : KeyValueFits(line, sep, L)}
  IN IF fits = {} THEN <<>>
     ELSE LET L == Min(fits)
              j == RunEnd(line, L + 1, WHITESPACE) + 1
              w == RunEnd(line, j + 1, WHITESPACE)
              v == IF w >= Len(line) THEN Len(line) ELSE w + 1
          IN <<SubSeq(line, 1, L), SubSeq(line, v, Len(line))>>

\* any(p.match(line) for p in KEY_VALUE_PATTERNS)
IsKeyValueLine(line) ==
  \E n \in 1..Len(KEY_VALUE_PATTERNS) :
     KeyValueMatch(line, KEY_VALUE_PATTERNS[n]) # <<>>

FillChars == {"_", "."}

\* re.sub(r"[_\.]{3,}$", "", value)
StripTrailingFill(value) ==
  LET a == RunStart(value, Len(value), FillChars)
  IN IF Len(value) - a + 1 >= 3 THEN SubSeq(value, 1, a - 1) ELSE value

\* value.split(":")[0]
BeforeColon(value) ==
  IF Contains(value, ":") THEN SubSeq(value, 1, Find(value, ":") - 1) ELSE value

\* the value as cleaned by lines 416-420
CleanValue(value) ==
  LET cut == IF Contains(value, ":") /\ Len(BeforeColon(value)) < 20
             THEN strip(BeforeColon(value)) ELSE value
  IN strip(StripTrailingFill(cut))

\* a write without the test of line 428
WriteField_overwrite(fields, field_name, value) ==
  SetItem(fields, field_name, value)

\* the write of line 428-429
WriteField(fields, field_name, value) == SetIfAbsent(fields, field_name, value)

\* a loop that stops at the first pattern with a label and a value, cleaned
\* to nothing or not
RECURSIVE KeyValueFrom_stops(_, _, _)
KeyValueFrom_stops(fields, line, n) ==
  IF n > Len(KEY_VALUE_PATTERNS) THEN fields
  ELSE LET m == KeyValueMatch(line, KEY_VALUE_PATTERNS[n])
       IN IF m = <<>> THEN KeyValueFrom_stops(fields, line, n + 1)
          ELSE LET label == strip(m[1])
                   value == strip(m[2])
               IN IF Len(label) < 2 \/ Len(label) > 50 \/ Len(value) < 1
                  THEN KeyValueFrom_stops(fields, line, n + 1)
                  ELSE IF CleanValue(value) = "" THEN fields
                  ELSE WriteField(fields, find_canonical_field(label),
                                  CleanValue(value))

\* the loop over KEY_VALUE_PATTERNS for one line, from pattern n on
RECURSIVE KeyValueFrom(_, _, _)
KeyValueFrom(fields, line, n) ==
  IF n > Len(KEY_VALUE_PATTERNS) THEN fields
  ELSE LET m == KeyValueMatch(line, KEY_VALUE_PATTERNS[n])
       IN IF m = <<>> THEN KeyValueFrom(fields, line, n + 1)
          ELSE LET label == strip(m[1])
                   value == strip(m[2])
               IN IF Len(label) < 2 \/ Len(label) > 50 \/ Len(value) < 1
                  THEN KeyValueFrom(fields, line, n + 1)
                  ELSE IF CleanValue(value) = ""
                  THEN KeyValueFrom(fields, line, n + 1)
                  ELSE WriteField(fields, find_canonical_field(label),
                                  CleanValue(value))

\* a line pass without the key-value step
KeyValueLine_skipped(fields, line) == fields

\* lines 401-430 for one line
KeyValueLine(fields, line) ==
  IF Len(line) < 3 THEN fields ELSE KeyValueFrom(fields, line, 1)

\* the alias test of the two-line scan (lines 440-441)
LabelLineMatches(normalized_line, e) ==
  \E v \in 1..Len(NormalizedMappings[e]) :
     \/ normalized_line = NormalizedMappings[e][v]
     \/ /\ Len(normalized_line) > 3
        /\ Contains(normalized_line, NormalizedMappings[e][v])

\* lines 446-447
CleanNextLine(next_line) ==
  LET a == RunEnd(next_line, 1, WHITESPACE \cup {":", "-", "="}) + 1
  IN strip(StripTrailingFill(SubSeq(next_line, a, Len(next_line))))

\* 1, 2, ... : the entries of FIELD_LABEL_MAPPINGS in declaration order
EntryIndexes == [e \in 1..Len(FIELD_LABEL_MAPPINGS) |-> e]

\* the entries whose iteration of the loop of lines 438-450 reaches the write:
\* an alias matches the line and the entry's name is not in fields (entries
\* have distinct names, so a write of this loop never blocks a later one)
TwoLineMatched(fields, normalized_line) ==
  LET Writes(e) == /\ LabelLineMatches(normalized_line, e)
                   /\ ~Has(fields, FieldName(e))
  IN SelectSeq(EntryIndexes, Writes)

\* a line pass without the two-line step
TwoLineLine_skipped(fields, lines, n) == fields

\* lines 433-450 for line n of lines (1-based)
TwoLineLine(fields, lines, n) ==
  IF Len(lines[n]) < 3 \/ n >= Len(lines) THEN fields
  ELSE LET next_line == strip(lines[n + 1])
           clean_value == CleanNextLine(next_line)
           matched == TwoLineMatched(fields, normalize_label(lines[n]))
       IN IF /\ next_line # ""
             /\ ~IsKeyValueLine(next_line)
             /\ Len(next_line) > 1
             /\ clean_value # ""
          THEN fields \o [k \in 1..Len(matched) |->
                            <<FieldName(matched[k]), clean_value>>]
          ELSE fields

\* ------------------------------------------------------------------------
\* Steps 3 to 6: the fallbacks

NameChars == LETTERS \cup WHITESPACE \cup {".", "'"}

\* re.match(r"^[A-Za-z][A-Za-z\s\.\']{2,40}$", line)
LooksLikeName(line) ==
  /\ Len(line) >= 3
  /\ Len(line) <= 41
  /\ Ch(line, 1) \in LETTERS
  /\ AllIn(line, 2, Len(line), NameChars)

NonNameWords == <<"form", "application", "government", "department",
                  "office", "certificate", "card", "document">>

\* str.title(): a letter is upper-cased after a non-letter, lower-cased after a letter
title(s) ==
  Concat([i \in 1..Len(s) |->
            IF Ch(s, i - 1) \in LETTERS THEN ToLower(Ch(s, i)) ELSE ToUpper(Ch(s, i))])

\* a test that asks for name characters only, 3 or more of them
IsNameLine_anystart(line) ==
  /\ ~Contains(line, ":")
  /\ ~Contains(line, "-")
  /\ Len(line) >= 3
  /\ AllIn(line, 1, Len(line), NameChars)
  /\ \A w \in 1..Len(NonNameWords) : ~Contains(lower(line), NonNameWords[w])

\* the line Step 3 takes as the name
IsNameLine(line) ==
  /\ ~Contains(line, ":")
  /\ ~Contains(line, "-")
  /\ LooksLikeName(line)
  /\ \A w \in 1..Len(NonNameWords) : ~Contains(lower(line), NonNameWords[w])

\* lines 453-465
NameFallbackFields(fields, lines) ==
  IF Has(fields, "name") \/ Has(fields, "full_name") THEN fields
  ELSE LET first5 == 1..MinOf(5, Len(lines))
           hits == {n \in first5 : IsNameLine(lines[n])}
       IN IF hits = {} THEN fields
          ELSE SetItem(fields, "full_name", title(lines[Min(hits)]))

\* lines 468-471
DobFallbackFields(fields, text) ==
  IF ~Has(fields, "date_of_birth") /\ DOB_RE(text) # <<>>
  THEN SetItem(fields, "date_of_birth", DOB_RE(text)[1])
  ELSE fields

AddressKeywords == <<"address", "residence", "residential", "~~~">>

HasAddressKeyword(line) ==
  \E k \in 1..Len(AddressKeywords) : Contains(lower(line), AddressKeywords[k])

\* addr_line.split(":", 1)[1].strip() when the line has a colon
AddressPart(addr_line) ==
  IF Contains(addr_line, ":")
  THEN strip(SubSeq(addr_line, Find(addr_line, ":") + 1, Len(addr_line)))
  ELSE addr_line

\* lines 478-485: the cleaned, non-empty lines j .. last
RECURSIVE AddressLines(_, _, _)
AddressLines(lines, j, last) ==
  IF j > last THEN <<>>
  ELSE (IF AddressPart(lines[j]) = "" THEN <<>> ELSE <<AddressPart(lines[j])>>)
         \o AddressLines(lines, j + 1, last)

AddressPrefixes == <<"address", "residential address", "present address">>

\* re.sub(r"^(address|residential address|present address)[:\s]*", "", address,
\*        flags=re.IGNORECASE)
StripAddressPrefix(address) ==
  LET hits == {k \in 1..Len(AddressPrefixes) : At(lower(address), 1, AddressPrefixes[k])}
  IN IF hits = {} THEN address
     ELSE LET e == RunEnd(address, Len(AddressPrefixes[Min(hits)]) + 1,
                          WHITESPACE \cup {":"})
          IN SubSeq(address, e + 1, Len(address))

\* lines 474-493
AddressFallbackFields(fields, lines) ==
  LET hits == {n \in 1..Len(lines) : HasAddressKeyword(lines[n])}
  IN IF Has(fields, "address") \/ hits = {} THEN fields
     ELSE LET addr_lines == AddressLines(lines, Min(hits),
                                         MinOf(Min(hits) + 3, Len(lines)))
              address == strip(StripAddressPrefix(Join(addr_lines, " ")))
          IN IF addr_lines # <<>> /\ address # ""
             THEN SetItem(fields, "address", address) ELSE fields

\* lines 496-499
PincodeFallbackFields(fields, text) ==
  IF ~Has(fields, "pincode") /\ PINCODE_PATTERN(text) # <<>>
  THEN SetItem(fields, "pincode", PINCODE_PATTERN(text)[1])
  ELSE fields

\* ------------------------------------------------------------------------
\* Schema inference

\* _slugify_label
slugify_label(label) ==
  LET slug == StripChars(SlugRuns(lower(label)), {"_"})
  IN IF slug = "" THEN "field" ELSE slug

ContainsAny(s, words) == \E w \in 1..Len(words) : Contains(s, words[w])

\* a guess that knows no keyword
guess_field_type_text(label) == "text"

\* _guess_field_type
guess_field_type(label) ==
  LET low == lower(label)
  IN IF Contains(low, "email") THEN "email"
     ELSE IF ContainsAny(low, <<"phone", "mobile", "contact">>) THEN "tel"
     ELSE IF ContainsAny(low, <<"date", "dob", "birth">>) THEN "date"
     ELSE IF ContainsAny(low, <<"amount", "total", "number", "qty">>) THEN "number"
     ELSE IF ContainsAny(low, <<"address", "reason", "description", "notes">>)
          THEN "textarea"
     ELSE "text"

\* BLANK_LINE_RE  ^[_\.\-\s]{3,}$
BLANK_LINE_RE(s) ==
  Len(s) >= 3 /\ AllIn(s, 1, Len(s), {"_", ".", "-"} \cup WHITESPACE)

\* the least length of a run of c that INLINE_FILL_RE takes as a blank
\* (_{3,} | \.{3,} | [-]{4,}); 0: c starts no blank
MinFillRun(c) == IF c \in {"_", "."} THEN 3 ELSE IF c = "-" THEN 4 ELSE 0

\* \s*(?:_{3,}|\.{3,}|[-]{4,})\s*(?:optional|required)?$  matches s from q on
InlineTail(s, q) ==
  LET a == RunEnd(s, q, WHITESPACE) + 1
      r == RunEnd(s, a, {Ch(s, a)})
      b == RunEnd(s, r + 1, WHITESPACE) + 1
  IN /\ MinFillRun(Ch(s, a)) > 0
     /\ r - a + 1 >= MinFillRun(Ch(s, a))
     /\ lower(SubSeq(s, b, Len(s))) \in {"", "optional", "required"}

\* INLINE_FILL_RE with a label of L characters:
\* (?P<label>.{3,}?)(?:[:*]|\b) and then the tail
InlineFits(s, L) ==
  \/ Ch(s, L + 1) \in {":", "*"} /\ InlineTail(s, L + 2)
  \/ WordBoundary(s, L + 1) /\ InlineTail(s, L + 1)

\* INLINE_FILL_RE.match(s).group("label"): the shortest label that fits
INLINE_FILL_RE(s) ==
  LET fits == {L \in 3..Len(s) : InlineFits(s, L)}
  IN IF fits = {} THEN <<>> ELSE <<SubSeq(s, 1, Min(fits))>>

\* the run of fill characters around position i is at least 3 long
InFillRun(s, i) ==
  /\ Ch(s, i) \in FillChars
  /\ RunEnd(s, i, FillChars) - RunStart(s, i, FillChars) + 1 >= 3

\* re.sub(r"[_\.]{3,}", " ", s)
ReplaceFillRuns(s) ==
  Concat([i \in 1..Len(s) |->
            IF ~InFillRun(s, i) THEN Ch(s, i)
            ELSE IF RunStart(s, i, FillChars) = i THEN " " ELSE ""])

\* re.search(r"\b(?:w1|w2|...)\b", s) for lower-case words and lower-cased s
HasWord(s, words) ==
  \E w \in 1..Len(words) :
     \E p \in 1..(Len(s) - Len(words[w]) + 1) :
        /\ At(s, p, words[w])
        /\ WordBoundary(s, p)
        /\ WordBoundary(s, p + Len(words[w]))

LabelKeywords == <<"name", "address", "city", "state", "zip", "phone",
                   "email", "reason", "amount">>

\* len(s.split())
WordCount(s) ==
  Cardinality({i \in 1..Len(s) :
                 Ch(s, i) \notin WHITESPACE /\ (i = 1 \/ Ch(s, i - 1) \in WHITESPACE)})

\* normalized.split(":", 1)[1]
AfterColon(s) == SubSeq(s, Find(s, ":") + 1, Len(s))

\* a next line is given and is a blank line
NextIsBlank(next_line) == next_line # "" /\ BLANK_LINE_RE(next_line)

\* _line_to_label after the inline pattern failed; "" stands for None, which
\* the caller does not tell from an empty label
LabelFromNormalized(normalized, next_line) ==
  IF normalized = "" THEN ""
  ELSE IF Contains(normalized, ":") /\ strip(AfterColon(normalized)) # ""
       THEN strip(BeforeColon(normalized))
  ELSE IF Contains(normalized, ":") /\ NextIsBlank(next_line)
       THEN strip(BeforeColon(normalized))
  ELSE IF Ch(normalized, Len(normalized)) = "?"
       THEN strip(rstrip(normalized, {"?"}))
  ELSE IF HasWord(lower(normalized), <<"optional", "required">>)
          /\ Contains(normalized, ":")
       THEN strip(BeforeColon(normalized))
  ELSE IF HasWord(lower(normalized), LabelKeywords) /\ WordCount(normalized) <= 6
       THEN normalized
  ELSE IF /\ NextIsBlank(next_line)
          /\ Len(rstrip(normalized, {"*", ":"})) >= 3
          /\ Len(rstrip(normalized, {"*", ":"})) <= 60
       THEN strip(rstrip(normalized, {"*", ":"}))
  ELSE ""

\* every line taken as its own label
line_to_label_verbatim(line, next_line) == strip(line)

\* _line_to_label; next_line is "" when there is no next line
line_to_label(line, next_line) ==
  IF INLINE_FILL_RE(strip(line)) # <<>>
  THEN strip(INLINE_FILL_RE(strip(line))[1])
  ELSE LabelFromNormalized(strip(ReplaceFillRuns(line)), next_line)

Digit(n) == Ch("0123456789", n + 1)

\* str(n)
RECURSIVE IntToStr(_)
IntToStr(n) == IF n < 10 THEN Digit(n) ELSE IntToStr(n \div 10) \o Digit(n % 10)

\* the slug taken without the loop of line 760
UniqueName_unchecked(name, name_base, suffix, used_names) == name

\* lines 758-762: the first of name_base, name_base_2, name_base_3, ... not in use
RECURSIVE UniqueName(_, _, _, _)
UniqueName(name, name_base, suffix, used_names) ==
  IF name \notin used_names THEN name
  ELSE UniqueName(name_base \o "_" \o IntToStr(suffix), name_base, suffix + 1,
                  used_names)

\* the descriptor of lines 769-777
Descriptor(name, label, line, next_line) ==
  [name |-> name,
   label |-> label,
   type |-> guess_field_type(label),
   required |-> Contains(IF next_line # ""
                         THEN lower(line) \o " " \o lower(next_line)
                         ELSE lower(line), "required"),
   fullWidth |-> Len(label) > 24]

\* key.replace("_", " ")
UnderscoresToSpaces(key) ==
  Concat([i \in 1..Len(key) |-> IF Ch(key, i) = "_" THEN " " ELSE Ch(key, i)])

\* the descriptor of lines 786-796
FallbackDescriptor(key, value) ==
  LET label == title(UnderscoresToSpaces(key))
  IN [name |-> key,
      label |-> label,
      type |-> guess_field_type(label),
      required |-> FALSE,
      fullWidth |-> Len(label) > 24,
      default |-> value]

\* a fallback that makes no descriptor
FallbackCandidates_none(parsed) == <<>>

\* a fallback that makes a placeholder descriptor of an empty map
FallbackCandidates_placeholder(parsed) ==
  IF parsed = <<>> THEN <<FallbackDescriptor("field", "")>>
  ELSE [n \in 1..Len(parsed) |-> FallbackDescriptor(parsed[n][1], parsed[n][2])]

\* lines 784-796: one descriptor per parsed field, in the map's order
FallbackCandidates(parsed) ==
  [n \in 1..Len(parsed) |-> FallbackDescriptor(parsed[n][1], parsed[n][2])]

\* a return without the slice
Truncate_all(candidates, max_fields) == candidates

\* candidates[:max_fields]
Truncate(candidates, max_fields) ==
  SubSeq(candidates, 1, MinOf(Len(candidates), max_fields))

\* ------------------------------------------------------------------------
\* The inputs

\* the most lines a generated text has
MaxLines == 2

\* the largest max_fields tried besides the default
MaxFieldsArg == 1

\* the default of max_fields
DefaultMaxFields == 60

\* the spec's scenarios A to E
ScenarioA == "Full Name: John Smith\nEmail: john@x.com\nPhone: 9876543210"

ScenarioB == "Address:\n123 Main St\nSpringfield\n"

ScenarioC == "Reason for visit: ____________ (required)"

ScenarioD == ""

ScenarioE == "Notes: abc\nnotes - def"

ScenarioTexts == {ScenarioA, ScenarioB, ScenarioC, ScenarioD, ScenarioE}

\* texts of one line tried on their own
ExampleTexts ==
  {"ab: x", "12345678901", "pin: blr 560001", " \n\t ", "Gender: Male",
   "ab - cd: ...", "A/B: 1", "id: 7", "Notes: abc\n____\nid: 7",
   "Notes: abc\n--", ".ab\njohn smith", "1\n2\n3\n4\n5\njohn smith",
   "1\n2\n3\n4\njohn smith"}

\* the lines generated texts are made of
LineVocabulary ==
  {"Notes: abc", "Shoe Size: 9", "1234 5678 9012", "uid: 1234"}

SeqsUpTo(S, n) == UNION {[1..k -> S] : k \in 0..n}

Texts ==
  ScenarioTexts \cup ExampleTexts
    \cup {Join(ls, "\n") : ls \in SeqsUpTo(LineVocabulary, MaxLines)}

MaxFieldsChoices == (0..MaxFieldsArg) \cup {DefaultMaxFields}

\* ------------------------------------------------------------------------
\* The two calls, step by step

\* the seed templates of the model: the first SeedCount of SEED_TEMPLATES
SeedCount == 2

SEED_TEMPLATES ==
  <<"Aadhaar Card Application", "PAN Card Application (Form 49A)",
    "Passport Application", "Voter ID (EPIC) Application",
    "Driving License Application", "Bank Account Opening Form",
    "Income Certificate Application", "Domicile/Residence Certificate">>

SeedTitles == SubSeq(SEED_TEMPLATES, 1, SeedCount)

\* a row of form_templates made from a seed
SeedRow(id, seed) == [id |-> id, title |-> seed, created_by |-> "system"]

\* init_db on a new database: seed_default_templates finds no row
SeededTemplates == [n \in 1..SeedCount |-> SeedRow(n, SeedTitles[n])]

VARIABLES
  call,        \* the function called: "none" before the call
  pc,          \* where the call is
  text,        \* the argument text
  max_fields,  \* the argument max_fields (infer_schema)
  lines,       \* the local lines
  i,           \* _parse_fields: the line of the Step 2 loop (1-based)
  fields,      \* _parse_fields: the local fields
  idx,         \* _generate_fields_from_text: the scan index (0-based)
  candidates,  \* _generate_fields_from_text: the local candidates
  used_names,  \* _generate_fields_from_text: the local used_names
  result,      \* the value returned
  history,     \* the calls that have returned: <<function, text, value>>
  USERS,       \* main.py, _USERS: username -> [password, role]
  SESSIONS,    \* main.py, _SESSIONS: token -> [username, role]
  uuids,       \* main.py: the number of uuid4() tokens made
  templates,   \* the table form_templates, in id order
  responses,   \* the table form_responses, in id order
  reply,       \* the last handler's answer: <<handler, status, body>>
  CACHE,       \* tts_service.py, _CACHE: <<key, bytes>>, oldest first
  speech,      \* the last synthesize_speech: <<outcome, bytes, synthesized>>
  uses,        \* the keys of the calls that returned bytes, in call order
  upload,      \* the upload that /api/ocr/extract is working on
  engines,     \* the OCR engines called for the upload: <<engine, outcome>>
  extracted    \* how _extract_text_from_image ended: <<"text", text>> or
               \* <<exception, message>>; <<>> while it has not been called

\* the state of the speech cache
tts == <<CACHE, speech, uses>>

\* the state of an OCR upload
img == <<upload, engines, extracted>>

\* the state of the services beside the two OCR calls
svc == <<USERS, SESSIONS, uuids, templates, responses, reply, tts, img>>

\* the state of the two OCR calls
ocr == <<call, pc, text, max_fields, lines, i, fields, idx, candidates,
         used_names, result, history>>

vars == <<call, pc, text, max_fields, lines, i, fields, idx, candidates,
          used_names, result, history, svc>>

Init ==
  /\ call = "none"
  /\ pc = "idle"
  /\ text = ""
  /\ max_fields = 0
  /\ lines = <<>>
  /\ i = 0
  /\ fields = <<>>
  /\ idx = 0
  /\ candidates = <<>>
  /\ used_names = {}
  /\ result = <<>>
  /\ history = <<>>
  /\ USERS = <<<<"admin", [password |-> "adminpass", role |-> "admin"]>>,
               <<"user", [password |-> "userpass", role |-> "user"]>>>>
  /\ SESSIONS = <<>>
  /\ uuids = 0
  /\ templates = SeededTemplates
  /\ responses = <<>>
  /\ reply = <<"none", 0, <<>>>>
  /\ CACHE = <<>>
  /\ speech = <<"none", "", FALSE>>
  /\ uses = <<>>
  /\ upload = <<>>
  /\ engines = <<>>
  /\ extracted = <<>>

\* a _parse_fields whose map outlives the call
ParseEntry_keeps(t) ==
  /\ text' = t
  /\ lines' = Lines(t)
  /\ fields' = UpdateFrom(fields, extract_specific_values(t), 1)
  /\ i' = 1
  /\ pc' = IF Lines(t) = <<>> THEN "name" ELSE "kv"

\* _parse_fields, lines 391-396: the lines, and Step 1 seeds the map
ParseEntry(t) ==
  /\ text' = t
  /\ lines' = Lines(t)
  /\ fields' = UpdateFrom(<<>>, extract_specific_values(t), 1)
  /\ i' = 1
  /\ pc' = IF Lines(t) = <<>> THEN "name" ELSE "kv"

\* extract_fields(t) is called
ParseStart(t) ==
  /\ pc = "idle"
  /\ call' = "extract_fields"
  /\ ParseEntry(t)
  /\ UNCHANGED <<svc, history, max_fields, idx, candidates, used_names, result>>

\* Step 2, lines 401-430, for line i
KeyValueStep ==
  /\ pc = "kv"
  /\ fields' = KeyValueLine(fields, lines[i])
  /\ pc' = "two"
  /\ UNCHANGED <<svc, history, call, text, max_fields, lines, i, idx,
                 candidates, used_names, result>>

\* Step 2, lines 433-450, for line i; then the next line
TwoLineStep ==
  /\ pc = "two"
  /\ fields' = TwoLineLine(fields, lines, i)
  /\ i' = i + 1
  /\ pc' = IF i = Len(lines) THEN "name" ELSE "kv"
  /\ UNCHANGED <<svc, history, call, text, max_fields, lines, idx, candidates,
                 used_names, result>>

\* Step 3
NameFallback ==
  /\ pc = "name"
  /\ fields' = NameFallbackFields(fields, lines)
  /\ pc' = "dob"
  /\ UNCHANGED <<svc, history, call, text, max_fields, lines, i, idx,
                 candidates, used_names, result>>

\* Step 4
DobFallback ==
  /\ pc = "dob"
  /\ fields' = DobFallbackFields(fields, text)
  /\ pc' = "addr"
  /\ UNCHANGED <<svc, history, call, text, max_fields, lines, i, idx,
                 candidates, used_names, result>>

\* Step 5
AddressFallback ==
  /\ pc = "addr"
  /\ fields' = AddressFallbackFields(fields, lines)
  /\ pc' = "pin"
  /\ UNCHANGED <<svc, history, call, text, max_fields, lines, i, idx,
                 candidates, used_names, result>>

\* Step 6 and the return: to the caller of extract_fields, or to line 784
PincodeFallback ==
  /\ pc = "pin"
  /\ fields' = PincodeFallbackFields(fields, text)
  /\ result' = IF call = "extract_fields" THEN fields' ELSE result
  /\ history' = IF call = "extract_fields"
                THEN Append(history, <<call, text, fields'>>)
                ELSE history
  /\ pc' = IF call = "extract_fields" THEN "done" ELSE "parsed"
  /\ UNCHANGED <<svc, call, text, max_fields, lines, i, idx, candidates,
                 used_names>>

\* _generate_fields_from_text, lines 742-746
InferStart(t, m) ==
  /\ pc = "idle"
  /\ call' = "infer_schema"
  /\ text' = t
  /\ max_fields' = m
  /\ lines' = Lines(t)
  /\ candidates' = <<>>
  /\ used_names' = {}
  /\ idx' = 0
  /\ pc' = "scan"
  /\ UNCHANGED <<svc, history, i, fields, result>>

\* the while condition of line 747
Scanning == idx < Len(lines) /\ Len(candidates) < max_fields

\* lines[idx] and the look-ahead ("" for None)
ScanLine == lines[idx + 1]

ScanNext == IF idx + 1 < Len(lines) THEN lines[idx + 2] ELSE ""

ScanLabel == line_to_label(ScanLine, ScanNext)

\* lines 751-756
LabelRejected(label) == label = "" \/ Len(label) < 3 \/ Len(label) > 60

\* an iteration that takes no label: lines 751-756
ScanSkip ==
  /\ pc = "scan"
  /\ Scanning
  /\ LabelRejected(ScanLabel)
  /\ idx' = idx + 1
  /\ UNCHANGED <<svc, history, call, pc, text, max_fields, lines, i, fields,
                 candidates, used_names, result>>

\* an iteration that takes a label and goes to the next line, blank or not
ScanAccept_byone ==
  /\ pc = "scan"
  /\ Scanning
  /\ LET label == ScanLabel
         name_base == slugify_label(label)
         name == UniqueName(name_base, name_base, 2, used_names)
     IN /\ ~LabelRejected(label)
        /\ used_names' = used_names \cup {name}
        /\ candidates' = Append(candidates,
                                Descriptor(name, label, ScanLine, ScanNext))
  /\ idx' = idx + 1
  /\ UNCHANGED <<svc, history, call, pc, text, max_fields, lines, i, fields,
                 result>>

\* an iteration that takes a label: lines 757-781
ScanAccept ==
  /\ pc = "scan"
  /\ Scanning
  /\ LET label == ScanLabel
         name_base == slugify_label(label)
         name == UniqueName(name_base, name_base, 2, used_names)
     IN /\ ~LabelRejected(label)
        /\ used_names' = used_names \cup {name}
        /\ candidates' = Append(candidates,
                                Descriptor(name, label, ScanLine, ScanNext))
  /\ idx' = IF NextIsBlank(ScanNext) THEN idx + 2 ELSE idx + 1
  /\ UNCHANGED <<svc, history, call, pc, text, max_fields, lines, i, fields,
                 result>>

\* lines 783-784: the scan found nothing, _parse_fields(text) is called
FallbackCall ==
  /\ pc = "scan"
  /\ ~Scanning
  /\ candidates = <<>>
  /\ ParseEntry(text)
  /\ UNCHANGED <<svc, history, call, max_fields, idx, candidates, used_names,
                 result>>

\* lines 785-796: the parsed fields become the candidates
Fallback ==
  /\ pc = "parsed"
  /\ candidates' = FallbackCandidates(fields)
  /\ pc' = "return"
  /\ UNCHANGED <<svc, history, call, text, max_fields, lines, i, fields, idx,
                 used_names, result>>

\* line 783 with candidates
ScanDone ==
  /\ pc = "scan"
  /\ ~Scanning
  /\ candidates # <<>>
  /\ pc' = "return"
  /\ UNCHANGED <<svc, history, call, text, max_fields, lines, i, fields, idx,
                 candidates, used_names, result>>

\* line 798
Return ==
  /\ pc = "return"
  /\ result' = Truncate(candidates, max_fields)
  /\ history' = Append(history, <<call, text, result'>>)
  /\ pc' = "done"
  /\ UNCHANGED <<svc, call, text, max_fields, lines, i, fields, idx,
                 candidates, used_names>>

Next ==
  \/ \E t \in Texts : ParseStart(t)
  \/ KeyValueStep
  \/ TwoLineStep
  \/ NameFallback
  \/ DobFallback
  \/ AddressFallback
  \/ PincodeFallback
  \/ \E t \in Texts : \E m \in MaxFieldsChoices : InferStart(t, m)
  \/ ScanSkip
  \/ ScanAccept
  \/ FallbackCall
  \/ Fallback
  \/ ScanDone
  \/ Return

Spec == Init /\ [][Next]_vars

\* ------------------------------------------------------------------------
\* Calls one after the other: the locals of a call that has returned are
\* dead, the model leaves their last values in place

\* the most calls made one after the other
MaxCalls == 3

\* the texts of repeated calls: one the scan finds a label in, one it does not
RepeatTexts == {ScenarioE, "12345678901"}

\* the caller has the value and is about to call again
NextCall ==
  /\ pc = "done"
  /\ Len(history) < MaxCalls
  /\ pc' = "idle"
  /\ UNCHANGED <<svc, history, call, text, max_fields, lines, i, fields, idx,
                 candidates, used_names, result>>

NextRepeat ==
  \/ \E t \in RepeatTexts : ParseStart(t)
  \/ KeyValueStep
  \/ TwoLineStep
  \/ NameFallback
  \/ DobFallback
  \/ AddressFallback
  \/ PincodeFallback
  \/ \E t \in RepeatTexts : InferStart(t, DefaultMaxFields)
  \/ ScanSkip
  \/ ScanAccept
  \/ FallbackCall
  \/ Fallback
  \/ ScanDone
  \/ Return
  \/ NextCall

SpecRepeat == Init /\ [][NextRepeat]_vars

\* the positions of a call
Positions ==
  {"idle", "kv", "two", "name", "dob", "addr", "pin", "parsed", "scan",
   "return", "done"}

\* a call is running and moves: every step of a running call changes pc or
\* idx, and a running call always has a step to take
Tick ==
  /\ pc \notin {"idle", "done"}
  /\ pc' \in Positions
  /\ idx' \in {idx, idx + 1, idx + 2}
  /\ <<pc', idx'>> # <<pc, idx>>

\* the functions run to their return: a running call keeps moving
SpecLive == Spec /\ WF_<<pc, idx>>(Tick)


\* ------------------------------------------------------------------------
\* Properties of extract_fields and infer_schema

\* extract_fields has returned `result`
ExtractReturned == call = "extract_fields" /\ pc = "done"

\* infer_schema has returned `result`
InferReturned == call = "infer_schema" /\ pc = "done"

\* the digits of a 12-digit ID written at position p of text, contiguous or
\* in three groups of four separated by one space (<<>>: none there)
ValidIdAt(t, p) ==
  IF /\ WordBoundary(t, p)
     /\ AllIn(t, p, p + 11, DIGITS)
     /\ WordBoundary(t, p + 12)
  THEN <<SubSeq(t, p, p + 11)>>
  ELSE IF /\ WordBoundary(t, p)
          /\ AllIn(t, p, p + 3, DIGITS)
          /\ Ch(t, p + 4) = " "
          /\ AllIn(t, p + 5, p + 8, DIGITS)
          /\ Ch(t, p + 9) = " "
          /\ AllIn(t, p + 10, p + 13, DIGITS)
          /\ WordBoundary(t, p + 14)
  THEN <<SubSeq(t, p, p + 3) \o SubSeq(t, p + 5, p + 8)
           \o SubSeq(t, p + 10, p + 13)>>
  ELSE <<>>

ValidIds(t) ==
  {ValidIdAt(t, p)[1] : p \in {q \in 1..Len(t) : ValidIdAt(t, q) # <<>>}}

\* C1: whenever a valid 12-digit ID occurs in the text, extract_fields
\* returns aadhaar_number equal to the digits of such an ID.
\* Violated: in "uid: 1234\n1234 5678 9012" the first match of
\* AADHAAR_PATTERN starts in the line above (\s? takes the line break), has
\* 13 characters once the spaces are removed, and is dropped; the search
\* does not go on to the ID, and the key-value step stores "1234".
EveryValidIdExtracted ==
  (ExtractReturned /\ ValidIds(text) # {})
    => /\ Has(result, "aadhaar_number")
       /\ Get(result, "aadhaar_number") \in ValidIds(text)

\* C2: a text with the line "Shoe Size: 9" yields key shoe_size with
\* value "9".
\* Violated: the aliases written in Devanagari normalize to "", "" is a
\* substring of every label, so every label of more than 3 characters
\* resolves to the first entry, name.
UnknownLabelStoredUnderSlug ==
  (ExtractReturned /\ \E n \in 1..Len(lines) : lines[n] = "Shoe Size: 9")
    => /\ Has(result, "shoe_size")
       /\ Get(result, "shoe_size") = "9"

\* the keys of a map are pairwise distinct
KeysDistinct(d) == \A a, b \in 1..Len(d) : a # b => d[a][1] # d[b][1]

\* a step leaves every entry of fields as it is
EntriesKept ==
  \A n \in 1..Len(fields) : Len(fields') >= n /\ fields'[n] = fields[n]

\* C3: in one pass a key is written at most once and keeps the value of its
\* first writer: no step changes an entry of fields, keys are never
\* duplicated, and for "Notes: abc" / "notes - def" the value kept is "abc",
\* never "def".
FirstWriterWins ==
  /\ [][EntriesKept]_vars
  /\ [](KeysDistinct(fields))
  /\ []((ExtractReturned /\ text = ScenarioE)
          => /\ \E n \in 1..Len(result) : result[n][2] = "abc"
             /\ \A n \in 1..Len(result) : result[n][2] # "def")

\* C3 witness: the pass over scenario E has returned, the second line's
\* write to the key of the first was refused
SecondWriterRefused ==
  /\ ExtractReturned
  /\ text = ScenarioE
  /\ result = <<<<"name", "abc">>>>

\* every value of the pre-pass is in d under its key
HoldsPrePass(d, t) ==
  LET values == extract_specific_values(t)
  IN \A n \in 1..Len(values) :
        Has(d, values[n][1]) /\ Get(d, values[n][1]) = values[n][2]

\* a fallback pattern leaves a key of the line pass alone
FallbackKeepsLineValue ==
  /\ (pc = "dob" /\ Has(fields, "date_of_birth")) => fields' = fields
  /\ (pc = "pin" /\ Has(fields, "pincode")) => fields' = fields

NamesDistinct ==
  InferReturned
    => \A a, b \in 1..Len(result) : a # b => result[a].name # result[b].name

\* C5 witness: a second "Notes" label was renamed notes_2
CollisionRenamed ==
  /\ InferReturned
  /\ Len(result) = 2
  /\ result[1].name = "notes"
  /\ result[2].name = "notes_2"

\* C6: every descriptor infer_schema returns has a label of 3 to 60
\* characters.
\* Violated by "ab: x": the scan rejects the label "ab", the fallback turns
\* the parsed key ab into a descriptor with the label "Ab", and lines
\* 785-796 apply no length test.
LabelLengthInRange ==
  InferReturned
    => \A n \in 1..Len(result) :
          Len(result[n].label) >= 3 /\ Len(result[n].label) <= 60

\* C7 (as the code has it): on "Notes: abc" / "notes - def" infer_schema
\* returns one descriptor, notes: "notes - def" has no colon, no keyword and
\* no blank line after it, so it yields no label and nothing is renamed; a
\* second line "Notes: abc" does collide and is returned as notes_2.
ScenarioEOneDescriptor ==
  /\ (InferReturned /\ text = ScenarioE /\ max_fields >= 1)
       => /\ Len(result) = 1
          /\ result[1].name = "notes"
          /\ result[1].label = "Notes"
  /\ (InferReturned /\ text = "Notes: abc\nNotes: abc" /\ max_fields >= 2)
       => /\ Len(result) = 2
          /\ result[1].name = "notes"
          /\ result[2].name = "notes_2"

\* C7 witness: infer_schema has returned for scenario E with the default
\* max_fields
ScenarioEInferred ==
  /\ InferReturned
  /\ text = ScenarioE
  /\ max_fields = DefaultMaxFields
  /\ Len(result) = 1

\* C7 as stated: two descriptors, notes and notes_2.
ScenarioETwoDescriptors ==
  (InferReturned /\ text = ScenarioE /\ max_fields = DefaultMaxFields)
    => /\ Len(result) = 2
       /\ result[1].name = "notes"
       /\ result[2].name = "notes_2"

\* C8: on scenario A extract_fields returns "John Smith" under name (the
\* canonical id of the label "Full Name"), email = "john@x.com" and
\* mobile_number = "9876543210", and nothing else.
ScenarioAResult ==
  (ExtractReturned /\ text = ScenarioA)
    => /\ Keys(result) = {"name", "email", "mobile_number"}
       /\ Get(result, "name") = "John Smith"
       /\ Get(result, "email") = "john@x.com"
       /\ Get(result, "mobile_number") = "9876543210"

\* C8 witness: the pass over scenario A has returned
ScenarioAReturned ==
  /\ ExtractReturned
  /\ text = ScenarioA
  /\ Len(result) = 3

\* C9 (as the code has it): on scenario B the two-line step of the first
\* line, "Address:", stores the next line, "123 Main St", under address; the
\* address-keyword scan finds the key set and adds nothing, and the value
\* returned is "123 Main St".
ScenarioBAddressFromTwoLineStep ==
  (call = "extract_fields" /\ text = ScenarioB
     /\ pc \in {"name", "dob", "addr", "pin", "done"})
    => /\ Has(fields, "address")
       /\ Get(fields, "address") = "123 Main St"

\* C9 witness: the pass over scenario B is about to scan for address
\* keywords, and address is set
ScenarioBAddressSetBeforeScan ==
  /\ call = "extract_fields"
  /\ text = ScenarioB
  /\ pc = "addr"
  /\ Has(fields, "address")

\* C9 as stated: the address returned is the concatenation of the lines
\* after "Address:".
ScenarioBAddressConcatenated ==
  (ExtractReturned /\ text = ScenarioB)
    => /\ Has(result, "address")
       /\ Get(result, "address") = "123 Main St Springfield"

\* the digits of t are one run of 11
OnlyElevenDigits(t) ==
  /\ Len(Keep(t, DIGITS)) = 11
  /\ \E p \in 1..(Len(t) - 10) : AllIn(t, p, p + 10, DIGITS)

\* C10: for a text whose only digits are one 11-digit number the result has
\* no aadhaar_number, mobile_number or pincode.
\* Violated by "12345678901": PHONE_RE takes the first digit as the country
\* code and the other ten as the number, and lines 381-384 keep the last ten
\* digits of the match.
NearMatchNotExtracted ==
  (ExtractReturned /\ OnlyElevenDigits(text))
    => /\ ~Has(result, "aadhaar_number")
       /\ ~Has(result, "mobile_number")
       /\ ~Has(result, "pincode")

\* _parse_fields(text) was called from line 784 and has returned `fields`
FallbackParsed ==
  call = "infer_schema" /\ pc \in {"parsed", "return", "done"} /\ i > 0

\* descriptor d is the one lines 786-796 make of the parsed pair kv
FromParsedPair(d, kv) ==
  /\ d.name = kv[1]
  /\ d.label = title(UnderscoresToSpaces(kv[1]))
  /\ d.default = kv[2]

\* the fallback step makes one descriptor of each parsed key, in order
OneDescriptorPerKey ==
  pc = "parsed"
    => /\ Len(candidates') = Len(fields)
       /\ \A n \in 1..Len(fields) : FromParsedPair(candidates'[n], fields[n])

\* C11: for a non-empty text and max_fields >= 1, infer_schema returns a
\* non-empty list whenever the map _parse_fields (extract_fields) makes of
\* the text is non-empty: an empty list is returned only after the scan
\* found nothing and the parse of the same text returned the empty map; and
\* when the scan found nothing each parsed key becomes one descriptor with
\* the key as name, the title-cased key as label and the value as default.
FallbackNeverEmptyOnParsedText ==
  /\ []((InferReturned /\ text # "" /\ max_fields >= 1 /\ result = <<>>)
          => (FallbackParsed /\ fields = <<>>))
  /\ []((InferReturned /\ FallbackParsed /\ max_fields >= 1 /\ fields # <<>>)
          => /\ result # <<>>
             /\ \A n \in 1..Len(result) : FromParsedPair(result[n], fields[n]))
  /\ [][OneDescriptorPerKey]_vars

\* C11 witness: the scan of "12345678901" found no label, the parse found
\* the phone number, and the list returned is its descriptor
FallbackDescriptorReturned ==
  /\ InferReturned
  /\ text = "12345678901"
  /\ max_fields = 1
  /\ Len(result) = 1
  /\ result[1].name = "mobile_number"
  /\ result[1].label = "Mobile Number"
  /\ result[1].default = "2345678901"

\* t is empty or has whitespace only
IsBlank(t) == AllIn(t, 1, Len(t), WHITESPACE)

\* C12: for the empty string and for whitespace-only text extract_fields
\* returns the empty map and infer_schema the empty list, after its parse of
\* the same text returned the empty map; no step of either call reads a
\* line: there are no lines, the loop over the lines is not entered and the
\* scan loop is left at once.
BlankTextEmptyResults ==
  IsBlank(text)
    => /\ ExtractReturned => result = <<>>
       /\ InferReturned => (result = <<>> /\ FallbackParsed /\ fields = <<>>)
       /\ lines = <<>>
       /\ pc \notin {"kv", "two"}
       /\ pc = "scan" => ~Scanning

\* C12 witness: infer_schema has returned for a text of spaces, a line break
\* and a tab
WhitespaceTextInferred ==
  /\ InferReturned
  /\ text = " \n\t "
  /\ max_fields = DefaultMaxFields
  /\ result = <<>>

\* calls a and b of the history are extract_fields calls on one text
SameExtractCall(a, b) ==
  /\ history[a][1] = "extract_fields"
  /\ history[b][1] = "extract_fields"
  /\ history[a][2] = history[b][2]

\* C13: two extract_fields calls on the same text return identical maps,
\* whatever extract_fields and infer_schema calls were made before and
\* between them: the values the earlier calls left behind are not read.
ExtractRepeatable ==
  \A a, b \in 1..Len(history) :
     SameExtractCall(a, b) => history[a][3] = history[b][3]

\* C13 witness: extract_fields has returned for scenario E a second time,
\* after an infer_schema call whose fallback parsed another text and left
\* its map behind
ExtractedAgainAfterInfer ==
  /\ Len(history) = 3
  /\ SameExtractCall(1, 3)
  /\ history[1][2] = ScenarioE
  /\ history[2] = <<"infer_schema", "12345678901",
                    <<FallbackDescriptor("mobile_number", "2345678901")>>>>
  /\ fields = history[3][3]

\* C14: infer_schema on the one line 'Reason for visit: ____________
\* (required)' returns exactly one descriptor (max_fields >= 1): name
\* reason_for_visit, label 'Reason for visit', type textarea, required true.
ScenarioCOneRequiredTextarea ==
  (InferReturned /\ text = ScenarioC /\ max_fields >= 1)
    => /\ Len(result) = 1
       /\ result[1].name = "reason_for_visit"
       /\ result[1].label = "Reason for visit"
       /\ result[1].type = "textarea"
       /\ result[1].required = TRUE

\* C14 witness: infer_schema has returned for scenario C with the default
\* max_fields, from the scan and not from the fallback
ScenarioCInferred ==
  /\ InferReturned
  /\ text = ScenarioC
  /\ max_fields = DefaultMaxFields
  /\ ~FallbackParsed
  /\ Len(result) = 1

\* C15: a label that is an alias of one dictionary entry and of no earlier
\* one resolves to that entry: the line "Gender: Male" is stored under
\* gender.
\* Violated: "gender" is an alias of the entry gender only, but the entry
\* name, declared first, has an alias written in Devanagari that normalizes
\* to ""; "" is contained in "gender", the label has more than 3 characters,
\* and line 351 returns name.
AliasResolvesToItsEntry ==
  (ExtractReturned /\ text = "Gender: Male")
    => /\ find_canonical_field("Gender") = "gender"
       /\ Has(result, "gender")
       /\ Get(result, "gender") = "Male"

\* the two-line step of line i adds at most one key, and none when the next
\* line is a key-value line
TwoLineStepWritesOne ==
  (pc = "two" /\ i < Len(lines))
    => /\ Len(fields') <= Len(fields) + 1
       /\ IsKeyValueLine(lines[i + 1]) => fields' = fields

\* C16: the two-line step writes the cleaned next line under one canonical
\* id only, that of the first entry the label line matches, and writes
\* nothing when the next line matches a key-value pattern.
\* Violated by scenario B: the loop of line 437 has no break of its own, the
\* break of line 450 leaves the loop over the aliases only, so "123 Main St"
\* is written under every entry "Address:" matches and that is absent; with
\* the aliases that normalize to "" these are 40 entries.
TwoLineWritesOneKey == [][TwoLineStepWritesOne]_vars

\* pattern n matches the line with a label of 2 to 50 characters and a
\* non-empty value
PatternFits(line, n) ==
  LET m == KeyValueMatch(line, KEY_VALUE_PATTERNS[n])
  IN /\ m # <<>>
     /\ Len(strip(m[1])) >= 2
     /\ Len(strip(m[1])) <= 50
     /\ strip(m[2]) # ""

\* pattern n fits and the cleanup leaves a value
PatternAccepts(line, n) ==
  /\ PatternFits(line, n)
  /\ CleanValue(strip(KeyValueMatch(line, KEY_VALUE_PATTERNS[n])[2])) # ""

\* what the key-value step makes of fields when it stops at pattern n
WrittenBy(line, n) ==
  LET m == KeyValueMatch(line, KEY_VALUE_PATTERNS[n])
      value == CleanValue(strip(m[2]))
  IN IF value = "" THEN fields
     ELSE WriteField(fields, find_canonical_field(strip(m[1])), value)

\* the first of the patterns 1..3 in S (0: none)
FirstPattern(S) == IF S = {} THEN 0 ELSE Min(S)

\* the key-value step of a line of 3 or more characters stops at the first
\* pattern, in the order colon, hyphen, equals, that fits and whose value the
\* cleanup does not empty
StopsAtFirstAccepting ==
  (pc = "kv" /\ Len(lines[i]) >= 3)
    => LET n == FirstPattern({k \in 1..3 : PatternAccepts(lines[i], k)})
       IN fields' = IF n = 0 THEN fields ELSE WrittenBy(lines[i], n)

\* the key-value step stops at the first pattern that fits
StopsAtFirstFitting ==
  (pc = "kv" /\ Len(lines[i]) >= 3)
    => LET n == FirstPattern({k \in 1..3 : PatternFits(lines[i], k)})
       IN fields' = IF n = 0 THEN fields ELSE WrittenBy(lines[i], n)

\* C17 (as the code has it): for each line the key-value step tries the
\* separators in the order colon, hyphen, equals and stops at the first
\* pattern that matches with a label of 2 to 50 characters and a value that
\* is non-empty after the cleanup; a pattern whose value the cleanup empties
\* is passed over and the next separator is tried.
KeyValueStopsAtFirstAccepting ==
  /\ KEY_VALUE_PATTERNS = <<{":"}, {"-"}, {"="}>>
  /\ [][StopsAtFirstAccepting]_vars

\* C17 witness: in "ab - cd: ..." the colon pattern fits with the value
\* "...", which the cleanup empties; the hyphen pattern was applied and
\* stored "cd" under ab
HyphenAppliedAfterColonFitted ==
  /\ call = "extract_fields"
  /\ text = "ab - cd: ..."
  /\ pc = "two"
  /\ PatternFits(lines[1], 1)
  /\ fields = <<<<"ab", "cd">>>>

\* C17 as stated: once a pattern has matched with a label of 2 to 50
\* characters and a non-empty value no later pattern is applied, whatever the
\* cleanup does to the value.
KeyValueStopsAtFirstFitting == [][StopsAtFirstFitting]_vars

\* C18: when no dictionary entry matches, lookup returns the slug of the raw
\* label, every run of non-alphanumeric characters replaced by one "_": the
\* label "A/B" gives a_b.
\* Violated: line 355 makes the slug of the normalized label, from which
\* line 338 has already deleted every character that is no letter, digit or
\* whitespace; "A/B" is normalized to "ab" and stored under ab.
SlugOfRawLabel ==
  (ExtractReturned /\ text = "A/B: 1")
    => /\ FirstMatchingEntry(normalize_label("A/B")) = 0
       /\ find_canonical_field("A/B") = "a_b"
       /\ result = <<<<"a_b", "1">>>>

\* the entries, by their place in the declaration, with an alias that equals
\* the normalized label n or, when n has more than 3 characters, contains it
\* or is contained in it
DeclaredHits(n) ==
  {e \in 1..Len(FIELD_LABEL_MAPPINGS) :
     \E v \in 1..Len(NormalizedMappings[e]) :
        LET alias == NormalizedMappings[e][v]
        IN \/ n = alias
           \/ Len(n) > 3 /\ (Contains(n, alias) \/ Contains(alias, n))}

\* the key-value step of a line writes, or finds set, the key of the first
\* declared entry that matches the label; when none matches, the slug
LookupFirstDeclared ==
  (pc = "kv" /\ Len(lines[i]) >= 3)
    => LET k == FirstPattern({p \in 1..3 : PatternAccepts(lines[i], p)})
       IN k # 0
            => LET label == strip(KeyValueMatch(lines[i],
                                                KEY_VALUE_PATTERNS[k])[1])
                   n == normalize_label(label)
                   hits == DeclaredHits(n)
                   id == IF hits = {} THEN LabelSlug(n)
                         ELSE FieldName(Min(hits))
               IN /\ find_canonical_field(label) = id
                  /\ Has(fields', id)
                  /\ Keys(fields') = Keys(fields) \cup {id}

\* C19: _find_canonical_field scans the entries in declaration order and
\* returns the id of the first entry with an alias equal to the normalized
\* label or, only when the normalized label has more than 3 characters, an
\* alias that contains it or is contained in it; a label of 3 characters or
\* fewer resolves to an entry only by equality.
LookupInDeclarationOrder == [][LookupFirstDeclared]_vars

\* C19 witness: the label "id" is contained in aliases of the dictionary but
\* equals none and has 2 characters; it resolved to no entry and was stored
\* under its slug
ShortLabelNotMatchedPartially ==
  /\ ExtractReturned
  /\ text = "id: 7"
  /\ \E e \in 1..Len(FIELD_LABEL_MAPPINGS) :
        \E v \in 1..Len(NormalizedMappings[e]) :
           Contains(NormalizedMappings[e][v], "id")
  /\ result = <<<<"id", "7">>>>

\* an iteration of the scan advances idx by 2 when the line yields an
\* accepted label and the next line is a blank line, by 1 otherwise
ScanAdvances ==
  (pc = "scan" /\ Scanning)
    => idx' = IF ~LabelRejected(ScanLabel) /\ ScanNext # ""
                 /\ BLANK_LINE_RE(ScanNext)
              THEN idx + 2 ELSE idx + 1

\* within a call idx does not go back
ScanNeverGoesBack == pc # "idle" => idx' >= idx

AtMostMaxFields ==
  /\ InferReturned => Len(result) <= max_fields
  /\ (call = "infer_schema" /\ pc = "scan") => Len(candidates) <= max_fields
  /\ (call = "infer_schema" /\ pc = "scan"
        /\ Len(candidates) = max_fields) => ~Scanning

\* C21 witness: with max_fields = 1 the scan of two "Notes: abc" lines
\* stopped after the first, and one descriptor was returned
ScanStoppedAtMaxFields ==
  /\ InferReturned
  /\ text = "Notes: abc\nNotes: abc"
  /\ max_fields = 1
  /\ idx = 1
  /\ Len(result) = 1

\* the line has no colon and no hyphen, only letters, whitespace, periods
\* and apostrophes, 3 or more of them, and no non-name token
NameLineAsStated(line) ==
  /\ \A p \in 1..Len(line) :
        Ch(line, p) \in LETTERS \cup WHITESPACE \cup {".", "'"}
  /\ Len(line) >= 3
  /\ \A w \in {"form", "application", "government", "department", "office",
               "certificate", "card", "document"} :
        ~Contains(lower(line), w)

\* the same, and the line starts with a letter and has at most 41 characters
NameLineAsCoded(line) ==
  /\ NameLineAsStated(line)
  /\ Ch(line, 1) \in LETTERS
  /\ Len(line) <= 41

\* the first of the first 5 lines in S (0: none)
FirstOfFive(S) == IF S \cap (1..5) = {} THEN 0 ELSE Min(S \cap (1..5))

\* what Step 3 makes of fields when n is the line it takes (0: none)
NameWritten(n) ==
  IF Has(fields, "name") \/ Has(fields, "full_name") \/ n = 0 THEN fields
  ELSE Append(fields, <<"full_name", title(lines[n])>>)

\* Step 3 takes the first of the first 5 lines that starts with a letter and
\* is a name line of at most 41 characters
NameFromFirstCodedLine ==
  pc = "name"
    => fields' = NameWritten(FirstOfFive({n \in 1..Len(lines) :
                                            NameLineAsCoded(lines[n])}))

\* Step 3 takes the first of the first 5 lines that is a name line
NameFromFirstStatedLine ==
  pc = "name"
    => fields' = NameWritten(FirstOfFive({n \in 1..Len(lines) :
                                            NameLineAsStated(lines[n])}))

\* C22 (as the code has it): the name fallback writes full_name only when
\* neither name nor full_name is present after the line pass, from the first
\* of the first 5 non-empty lines that has no colon or hyphen, starts with a
\* letter, has 3 to 41 characters, all of them letters, whitespace, periods
\* or apostrophes, and contains none of the non-name tokens; the value is
\* that line title-cased.
NameFallbackTakesFirstCodedLine == [][NameFromFirstCodedLine]_vars

\* C22 witness: in ".ab" / "john smith" the first line has 3 characters,
\* all of them periods or letters, and starts with a period; Step 3 passed
\* it over and took the second line
LineStartingWithPeriodPassedOver ==
  /\ ExtractReturned
  /\ text = ".ab\njohn smith"
  /\ NameLineAsStated(lines[1])
  /\ result = <<<<"full_name", "John Smith">>>>

\* C22 as stated: the line taken is the first that has no colon or hyphen,
\* consists of letters, spaces, periods and apostrophes (3 or more) and has
\* no non-name token.
NameFallbackTakesFirstStatedLine == [][NameFromFirstStatedLine]_vars

\* ------------------------------------------------------------------------
\* main.py: users, sessions, form templates and form responses.  A handler
\* is an async function without an await between its reads and its writes,
\* so a handler is one step.

\* the most uuid4() tokens made
MaxTokens == 2

\* the highest id of a form template
MaxForms == 2

\* the highest id of a form response
MaxResponses == 1

\* str(uuid4()): the k-th token made, distinct from every other one
TokenNames == <<"t1", "t2", "t3", "t4", "t5", "t6">>

Token(k) == TokenNames[k]

\* the Authorization header: <<>> when the request has none
Authorizations ==
  {<<>>, <<"">>, <<"bearer t1">>, <<"Bearer  t1 ">>}
    \cup {<<"Bearer " \o Token(k)>> : k \in 1..MaxTokens}

\* the headers of a client that sends no header or a token as it got it
TokenHeaders == {<<>>} \cup {<<"Bearer " \o Token(k)>> : k \in 1..MaxTokens}

LoginNames == {"admin", "user", "eve", "bob"}

Passwords == {"adminpass", "userpass", "pw"}

RegisterNames == {"admin", "eve"}

RegisterRoles == {"user", " Admin ", "root"}

\* the titles of a FormTemplatePayload
Titles == {" A "}

FormIds == 1..MaxForms

\* the form ids a response is submitted under: the first seed template and
\* an id that is never stored
SubmitFormIds == {1, MaxForms + 1}

\* the form ids a download asks under: those and another stored template
AskedFormIds == SubmitFormIds \cup {SeedCount}

ResponseIds == 1..MaxResponses

\* dict.pop(k, None)
Pop(d, k) == SelectSeq(d, LAMBDA e : e[1] # k)

\* dict.get(k): <<>> for None, <<v>> for the value v
Lookup(d, k) == IF Has(d, k) THEN <<Get(d, k)>> ELSE <<>>

\* auth_header.startswith("Bearer ")
IsBearer(h) == Len(h) >= 7 /\ SubSeq(h, 1, 7) = "Bearer "

\* the position of the first space of h
FirstSpace(h) ==
  CHOOSE p \in 1..Len(h) : Ch(h, p) = " " /\ \A q \in 1..(p - 1) : Ch(h, q) # " "

\* auth_header.split(" ", 1)[1].strip()
BearerToken(h) == strip(SubSeq(h, FirstSpace(h) + 1, Len(h)))

\* the token of a header, <<>> when lines 202-205 return None
HeaderToken ==
  [auth \in Authorizations |->
     IF auth = <<>> \/ auth = <<"">> THEN <<>>
     ELSE IF ~IsBearer(auth[1]) THEN <<>>
     ELSE <<BearerToken(auth[1])>>]

\* a lookup that takes what follows "Bearer " as it is
get_session_from_auth_unstripped(auth) ==
  IF auth = <<>> \/ auth = <<"">> THEN <<>>
  ELSE IF ~IsBearer(auth[1]) THEN <<>>
  ELSE Lookup(SESSIONS, SubSeq(auth[1], 8, Len(auth[1])))

\* _get_session_from_auth: <<>> for None, <<sess>> for the session
get_session_from_auth(auth) ==
  IF HeaderToken[auth] = <<>> THEN <<>>
  ELSE Lookup(SESSIONS, HeaderToken[auth][1])

\* the status of the HTTPException of _require_session, 0 when it returns
SessionError(auth) == IF get_session_from_auth(auth) = <<>> THEN 401 ELSE 0

\* an admin check that any session passes
AdminError_anyrole(auth) ==
  IF get_session_from_auth(auth) = <<>> THEN 401 ELSE 0

\* the status of the HTTPException of _require_admin, 0 when it returns
AdminError(auth) ==
  LET sess == get_session_from_auth(auth)
  IN IF sess = <<>> THEN 401
     ELSE IF sess[1].role # "admin" THEN 403
     ELSE 0

Detail(status) ==
  IF status = 401 THEN <<"Not authenticated">>
  ELSE IF status = 403 THEN <<"Admin access required">>
  ELSE <<"Form not found">>

\* the id of a new row: the table's rowid, one more than the highest
NewId(rows) == IF rows = <<>> THEN 1 ELSE rows[Len(rows)].id + 1

\* query(...).filter(id == n).first(): <<>> for None
RowById(rows, n) == SelectSeq(rows, LAMBDA r : r.id = n)

\* login, lines 172-184
login(username, password) ==
  LET user == Lookup(USERS, username)
  IN /\ IF user = <<>> \/ user[1].password # password
        THEN /\ reply' = <<"login", 401, <<"Invalid credentials">>>>
             /\ UNCHANGED <<SESSIONS, uuids>>
        ELSE /\ uuids < MaxTokens
             /\ uuids' = uuids + 1
             /\ SESSIONS' = SetItem(SESSIONS, Token(uuids'),
                                    [username |-> username,
                                     role |-> user[1].role])
             /\ reply' = <<"login", 200, <<Token(uuids'), user[1].role>>>>
     /\ UNCHANGED <<USERS, templates, responses, ocr, tts, img>>

\* req.role.lower().strip(), computed once per role
NormalizedRole == [r \in RegisterRoles |-> strip(lower(r))]

\* a register that does not look at the user table
register_overwrites(username, password, requested) ==
  LET role == NormalizedRole[requested]
  IN /\ IF role \notin {"admin", "user"}
        THEN /\ reply' = <<"register", 400,
                           <<"Role must be 'admin' or 'user'">>>>
             /\ UNCHANGED <<USERS, SESSIONS, uuids>>
        ELSE /\ uuids < MaxTokens
             /\ USERS' = SetItem(USERS, username,
                                 [password |-> password, role |-> role])
             /\ uuids' = uuids + 1
             /\ SESSIONS' = SetItem(SESSIONS, Token(uuids'),
                                    [username |-> username, role |-> role])
             /\ reply' = <<"register", 200, <<Token(uuids'), role>>>>
     /\ UNCHANGED <<templates, responses, ocr, tts, img>>

\* register, lines 187-198
register(username, password, requested) ==
  LET role == NormalizedRole[requested]
  IN /\ IF role \notin {"admin", "user"}
        THEN /\ reply' = <<"register", 400,
                           <<"Role must be 'admin' or 'user'">>>>
             /\ UNCHANGED <<USERS, SESSIONS, uuids>>
        ELSE IF Has(USERS, username)
        THEN /\ reply' = <<"register", 400, <<"Username already exists">>>>
             /\ UNCHANGED <<USERS, SESSIONS, uuids>>
        ELSE /\ uuids < MaxTokens
             /\ USERS' = SetItem(USERS, username,
                                 [password |-> password, role |-> role])
             /\ uuids' = uuids + 1
             /\ SESSIONS' = SetItem(SESSIONS, Token(uuids'),
                                    [username |-> username, role |-> role])
             /\ reply' = <<"register", 200, <<Token(uuids'), role>>>>
     /\ UNCHANGED <<templates, responses, ocr, tts, img>>

\* me, lines 224-229
me(auth) ==
  LET sess == get_session_from_auth(auth)
  IN /\ reply' = IF sess = <<>> THEN <<"me", 401, Detail(401)>>
                 ELSE <<"me", 200, <<sess[1].username, sess[1].role>>>>
     /\ UNCHANGED <<USERS, SESSIONS, uuids, templates, responses, ocr, tts, img>>

\* a logout that answers and leaves the session where it is
logout_keeps(auth) ==
  LET sess == get_session_from_auth(auth)
  IN /\ reply' = IF sess = <<>> THEN <<"logout", 401, Detail(401)>>
                 ELSE <<"logout", 200, <<"ok">>>>
     /\ UNCHANGED <<USERS, SESSIONS, uuids, templates, responses, ocr, tts, img>>

\* logout, lines 232-240
logout(auth) ==
  LET sess == get_session_from_auth(auth)
  IN /\ IF sess = <<>>
        THEN /\ reply' = <<"logout", 401, Detail(401)>>
             /\ UNCHANGED SESSIONS
        ELSE /\ SESSIONS' = Pop(SESSIONS, BearerToken(auth[1]))
             /\ reply' = <<"logout", 200, <<"ok">>>>
     /\ UNCHANGED <<USERS, uuids, templates, responses, ocr, tts, img>>

\* the handlers that call a service once _require_admin has passed:
\* ingest_form_template (lines 260-276), generate_form (279-292) and
\* gemini_generate_form (563-581); outcomes are the answers of the service
admin_service(handler, auth, outcomes) ==
  /\ IF AdminError(auth) # 0
     THEN reply' = <<handler, AdminError(auth), Detail(AdminError(auth))>>
     ELSE \E status \in outcomes : reply' = <<handler, status, <<>>>>
  /\ UNCHANGED <<USERS, SESSIONS, uuids, templates, responses, ocr, tts, img>>

ingest_form_template(auth) ==
  admin_service("ingest_form_template", auth, {200, 422, 500})

\* with a prompt that is not empty
generate_form(auth) == admin_service("generate_form", auth, {200, 500})

\* with a prompt that is not empty
gemini_generate_form(auth) ==
  admin_service("gemini_generate_form", auth, {200, 500})

\* create_form, lines 328-344
create_form(auth, req_title) ==
  /\ IF AdminError(auth) # 0
     THEN /\ reply' = <<"create_form", AdminError(auth),
                        Detail(AdminError(auth))>>
          /\ UNCHANGED templates
     ELSE /\ NewId(templates) <= MaxForms
          /\ templates' =
               Append(templates,
                      [id |-> NewId(templates), title |-> strip(req_title),
                       created_by |-> get_session_from_auth(auth)[1].username])
          /\ reply' = <<"create_form", 200, <<templates'[Len(templates')]>>>>
  /\ UNCHANGED <<USERS, SESSIONS, uuids, responses, ocr, tts, img>>

\* update_form, lines 355-373
update_form(auth, form_id, req_title) ==
  /\ IF AdminError(auth) # 0
     THEN /\ reply' = <<"update_form", AdminError(auth),
                        Detail(AdminError(auth))>>
          /\ UNCHANGED templates
     ELSE IF RowById(templates, form_id) = <<>>
     THEN /\ reply' = <<"update_form", 404, Detail(404)>>
          /\ UNCHANGED templates
     ELSE /\ templates' = [n \in 1..Len(templates) |->
                             IF templates[n].id = form_id
                             THEN [templates[n] EXCEPT !.title = strip(req_title)]
                             ELSE templates[n]]
          /\ reply' = <<"update_form", 200, RowById(templates', form_id)>>
  /\ UNCHANGED <<USERS, SESSIONS, uuids, responses, ocr, tts, img>>

\* delete_form, lines 376-388.  form_responses.form_id is declared ON DELETE
\* CASCADE: the database deletes the form's responses when it enforces
\* foreign keys and keeps them when it does not
delete_form(auth, form_id) ==
  IF AdminError(auth) # 0
  THEN /\ reply' = <<"delete_form", AdminError(auth),
                     Detail(AdminError(auth))>>
       /\ UNCHANGED <<USERS, SESSIONS, uuids, templates, responses, ocr,
                      tts, img>>
  ELSE IF RowById(templates, form_id) = <<>>
  THEN /\ reply' = <<"delete_form", 404, Detail(404)>>
       /\ UNCHANGED <<USERS, SESSIONS, uuids, templates, responses, ocr,
                      tts, img>>
  ELSE /\ templates' = SelectSeq(templates, LAMBDA r : r.id # form_id)
       /\ \/ responses' = responses
          \/ responses' = SelectSeq(responses, LAMBDA r : r.form_id # form_id)
       /\ reply' = <<"delete_form", 200, <<"ok">>>>
       /\ UNCHANGED <<USERS, SESSIONS, uuids, ocr, tts, img>>

\* submit_form_response, lines 391-410
submit_form_response(auth, form_id) ==
  /\ IF SessionError(auth) # 0
     THEN /\ reply' = <<"submit_form_response", 401, Detail(401)>>
          /\ UNCHANGED responses
     ELSE IF RowById(templates, form_id) = <<>>
     THEN /\ reply' = <<"submit_form_response", 404, Detail(404)>>
          /\ UNCHANGED responses
     ELSE /\ NewId(responses) <= MaxResponses
          /\ responses' =
               Append(responses,
                      [id |-> NewId(responses), form_id |-> form_id,
                       username |-> get_session_from_auth(auth)[1].username])
          /\ reply' = <<"submit_form_response", 200,
                        <<form_id, NewId(responses)>>>>
  /\ UNCHANGED <<USERS, SESSIONS, uuids, templates, ocr, tts, img>>

\* query(FormResponse).filter(id == response_id, form_id == form_id).first()
ResponseOf(form_id, response_id) ==
  SelectSeq(responses, LAMBDA r : r.id = response_id /\ r.form_id = form_id)

\* a download that asks for a session and nothing more
download_anyone(handler, auth, form_id, response_id, outcomes) ==
  LET sess == get_session_from_auth(auth)
      response == ResponseOf(form_id, response_id)
  IN /\ IF sess = <<>>
        THEN reply' = <<handler, 401, Detail(401)>>
        ELSE IF response = <<>>
        THEN reply' = <<handler, 404, <<"Form response not found">>>>
        ELSE \E status \in outcomes :
               reply' = <<handler, status,
                          IF status = 200 THEN response ELSE <<>>>>
     /\ UNCHANGED <<USERS, SESSIONS, uuids, templates, responses, ocr, tts, img>>

\* download_form_response (lines 413-442) and download_form_response_pdf
\* (lines 445-475); outcomes are 200 and the failures of the rendering
download(handler, auth, form_id, response_id, outcomes) ==
  LET sess == get_session_from_auth(auth)
      response == ResponseOf(form_id, response_id)
  IN /\ IF sess = <<>>
        THEN reply' = <<handler, 401, Detail(401)>>
        ELSE IF response = <<>>
        THEN reply' = <<handler, 404, <<"Form response not found">>>>
        ELSE IF response[1].username # sess[1].username
                /\ sess[1].role # "admin"
        THEN reply' = <<handler, 403,
                        <<"Not allowed to download this response">>>>
        ELSE \E status \in outcomes :
               reply' = <<handler, status,
                          IF status = 200 THEN response ELSE <<>>>>
     /\ UNCHANGED <<USERS, SESSIONS, uuids, templates, responses, ocr, tts, img>>

download_form_response(auth, form_id, response_id) ==
  download("download_form_response", auth, form_id, response_id, {200})

\* render_response_pdf may raise: the framework answers 500
download_form_response_pdf(auth, form_id, response_id) ==
  download("download_form_response_pdf", auth, form_id, response_id,
           {200, 500})

\* sign in and out, and the handlers that keep no state of their own
NextAuth ==
  \/ \E u \in LoginNames : \E p \in Passwords : login(u, p)
  \/ \E u \in RegisterNames : \E r \in RegisterRoles : register(u, "pw", r)
  \/ \E a \in Authorizations : me(a)
  \/ \E a \in Authorizations : logout(a)
  \/ \E a \in Authorizations : ingest_form_template(a)
  \/ \E a \in Authorizations : generate_form(a)
  \/ \E a \in Authorizations : gemini_generate_form(a)

SpecAuth == Init /\ [][NextAuth]_vars

\* the two demo users sign in and out and change the templates
NextForms ==
  \/ login("admin", "adminpass")
  \/ login("user", "userpass")
  \/ \E a \in Authorizations : logout(a)
  \/ \E a \in Authorizations : \E t \in Titles : create_form(a, t)
  \/ \E a \in Authorizations : \E f \in FormIds : \E t \in Titles :
       update_form(a, f, t)
  \/ \E a \in Authorizations : \E f \in FormIds : delete_form(a, f)

SpecForms == Init /\ [][NextForms]_vars

\* the demo users and a registered one submit and download responses
NextResponses ==
  \/ login("admin", "adminpass")
  \/ login("user", "userpass")
  \/ register("eve", "pw", "user")
  \/ \E a \in TokenHeaders : logout(a)
  \/ \E a \in TokenHeaders : \E f \in SubmitFormIds : submit_form_response(a, f)
  \/ \E a \in TokenHeaders : \E f \in AskedFormIds : \E r \in ResponseIds :
       download_form_response(a, f, r)
  \/ \E a \in TokenHeaders : \E f \in AskedFormIds : \E r \in ResponseIds :
       download_form_response_pdf(a, f, r)

SpecResponses == Init /\ [][NextResponses]_vars

\* ------------------------------------------------------------------------
\* services/tts_service.py: the speech cache

\* _CACHE_LIMIT, from TTS_CACHE_LIMIT (10 when unset)
CACHE_LIMIT == 2

\* the calls of synthesize_speech that return bytes in one behaviour
MaxSpeech == 4

\* the argument text: empty, blank, and texts that differ in their margins
SpeechTexts == {"", "  ", "a", " a ", "b"}

SpeechLangs == {"en", "hi"}

\* what gTTS writes; two calls for one text need not write the same bytes
Mp3s == {"mp3-1", "mp3-2"}

\* OrderedDict.move_to_end(key)
move_to_end(d, key) ==
  SelectSeq(d, LAMBDA e : e[1] # key) \o SelectSeq(d, LAMBDA e : e[1] = key)

\* lines 14-15: popitem(last=False) while the cache is over the limit
RECURSIVE Evict(_)
Evict(d) == IF Len(d) > CACHE_LIMIT THEN Evict(Tail(d)) ELSE d

\* a _remember that leaves a key that is hit where it was
remember_inplace(d, key, value) == Evict(SetItem(d, key, value))

\* a _remember that never evicts
remember_all(d, key, value) == move_to_end(SetItem(d, key, value), key)

\* _remember, lines 11-16
remember(d, key, value) == Evict(move_to_end(SetItem(d, key, value), key))

\* synthesize_speech, lines 19-32; gTTS may raise (no network, a language
\* it does not know), and then nothing is remembered
synthesize_speech(t, lang) ==
  LET cache_key == <<strip(t), lang>>
  IN /\ Len(uses) < MaxSpeech
     /\ IF t = "" \/ strip(t) = ""
        THEN /\ speech' = <<"ValueError", "", FALSE>>
             /\ UNCHANGED <<CACHE, uses>>
        ELSE IF Has(CACHE, cache_key)
        THEN /\ CACHE' = remember(CACHE, cache_key, Get(CACHE, cache_key))
             /\ speech' = <<"bytes", Get(CACHE, cache_key), FALSE>>
             /\ uses' = Append(uses, cache_key)
        ELSE \/ \E mp3 \in Mp3s :
                  /\ CACHE' = remember(CACHE, cache_key, mp3)
                  /\ speech' = <<"bytes", mp3, TRUE>>
                  /\ uses' = Append(uses, cache_key)
             \/ /\ speech' = <<"gTTSError", "", TRUE>>
                /\ UNCHANGED <<CACHE, uses>>
     /\ UNCHANGED <<USERS, SESSIONS, uuids, templates, responses, reply,
                    ocr, img>>

NextSpeech == \E t \in SpeechTexts : \E lang \in SpeechLangs :
                synthesize_speech(t, lang)

SpecSpeech == Init /\ [][NextSpeech]_vars

\* ------------------------------------------------------------------------
\* main.py: the two seed handlers

\* db.add of one seed row per title, in the order of the titles
RECURSIVE AddSeeds(_, _)
AddSeeds(rows, titles) ==
  IF titles = <<>> THEN rows
  ELSE AddSeeds(Append(rows, SeedRow(NewId(rows), Head(titles))),
                Tail(titles))

\* the rows with the title
TitleRows(rows, seed) == {n \in 1..Len(rows) : rows[n].title = seed}

\* public_seed_templates, lines 107-133
public_seed_templates ==
  /\ IF Len(templates) > 0
     THEN /\ reply' = <<"public_seed_templates", 200,
                        <<"Templates already exist", Len(templates)>>>>
          /\ UNCHANGED templates
     ELSE /\ templates' = AddSeeds(templates, SeedTitles)
          /\ reply' = <<"public_seed_templates", 200,
                        <<"Seeded", Len(SeedTitles)>>>>
  /\ UNCHANGED <<USERS, SESSIONS, uuids, responses, ocr, tts, img>>

\* the answer of seed_templates for the titles it adds
SeedAnswer(added) ==
  /\ templates' = AddSeeds(templates, added)
  /\ reply' = <<"seed_templates", 200,
                <<Len(templates), Len(added), Len(templates) + Len(added)>>>>

\* a seed_templates that adds every seed template
seed_templates_all(auth) ==
  /\ IF AdminError(auth) # 0
     THEN /\ reply' = <<"seed_templates", AdminError(auth),
                        Detail(AdminError(auth))>>
          /\ UNCHANGED templates
     ELSE SeedAnswer(SeedTitles)
  /\ UNCHANGED <<USERS, SESSIONS, uuids, responses, ocr, tts, img>>

\* seed_templates, lines 136-169: the titles are looked up in the table as
\* it is stored (the session does not flush before a query)
seed_templates(auth) ==
  /\ IF AdminError(auth) # 0
     THEN /\ reply' = <<"seed_templates", AdminError(auth),
                        Detail(AdminError(auth))>>
          /\ UNCHANGED templates
     ELSE SeedAnswer(SelectSeq(SeedTitles,
                               LAMBDA t : TitleRows(templates, t) = {}))
  /\ UNCHANGED <<USERS, SESSIONS, uuids, responses, ocr, tts, img>>

\* the ids a deletion asks for: the table's ids grow as seeds are added again
SeedFormIds == 1..(SeedCount + MaxForms)

\* seeding and deleting, with no create and no update
NextSeed ==
  \/ login("admin", "adminpass")
  \/ login("user", "userpass")
  \/ \E a \in TokenHeaders : logout(a)
  \/ public_seed_templates
  \/ \E a \in TokenHeaders : seed_templates(a)
  \/ \E a \in TokenHeaders : \E f \in SeedFormIds : delete_form(a, f)

SpecSeed == Init /\ [][NextSeed]_vars

\* ------------------------------------------------------------------------
\* /api/ocr/extract for an image: main.py, ocr_extract, and
\* services/ocr_service.py, extract_fields_from_document.  PDF uploads take
\* _extract_text_from_pdf and are left out.

\* file.content_type: <<>> when the part has none
ContentTypes == {<<>>, <<"">>, <<"image/png">>}

\* file.filename: an image, a name without a suffix, a name with dummy data
Filenames == {"scan.png", "scan", "Ritesh.PNG"}

\* the text an engine reads off an image; blank for an empty page
ImageTexts == {"Gender: Male\n", " \n\t ", "id: 7"}

\* _get_dummy_data_for_file, lines 638-651
IsDummyFile(filename) ==
  /\ filename # ""
  /\ \/ Contains(lower(filename), "ritesh")
     \/ Contains(lower(filename), "pranav")
     \/ Contains(lower(filename), "gaurav")

\* _extract_text_with_tesseract, lines 153-180: the text, or an exception
\* (the image cannot be opened, the binary fails)
TesseractRuns ==
  {<<"tesseract", "text", t>> : t \in ImageTexts}
    \cup {<<"tesseract", "Exception", "Tesseract OCR failed">>}

\* _extract_text_with_ocr_space, lines 102-150: the stripped ParsedText ("" 
\* without ParsedResults), RuntimeError for IsErroredOnProcessing and for
\* httpx.RequestError, and the exception of response.json() when the body
\* of the answer is not JSON, which the function does not catch
SpaceRuns ==
  {<<"ocr_space", "text", strip(t)>> : t \in ImageTexts}
    \cup {<<"ocr_space", "RuntimeError", "OCR.space error">>,
          <<"ocr_space", "RuntimeError", "OCR.space API request failed">>,
          <<"ocr_space", "JSONDecodeError", "Expecting value">>}

\* the engine calls of a run leave the function without a text
Falls(run) == run = <<>> \/ run[Len(run)][2] # "text"

\* the engine calls when OCR.space is called whenever a key is configured
ImageRuns_bothengines(available, key) ==
  {first \o second :
     first \in IF available THEN {<<r>> : r \in TesseractRuns} ELSE {<<>>},
     second \in IF key THEN {<<s>> : s \in SpaceRuns} ELSE {<<>>}}

\* _extract_text_from_image, lines 183-206: the engine calls it can make.
\* available is TESSERACT_AVAILABLE and _check_tesseract_available(), key is
\* OCR_SPACE_API_KEY being set
ImageRuns(available, key) ==
  LET first == IF available THEN {<<r>> : r \in TesseractRuns} ELSE {<<>>}
  IN {run \in first : ~Falls(run)}
       \cup {run \o second :
               run \in {r \in first : Falls(r)},
               second \in IF key THEN {<<s>> : s \in SpaceRuns} ELSE {<<>>}}

\* _extract_text_from_image: what the run returns or raises
ImageResult(run) ==
  IF run = <<>> \/ (run[Len(run)][1] = "tesseract" /\ Falls(run))
  THEN <<"RuntimeError", "No OCR method available">>
  ELSE <<run[Len(run)][2], run[Len(run)][3]>>

\* ocr_extract, lines 243-257, down to the call of _parse_fields in
\* extract_fields_from_document (line 679); the steps of _parse_fields
\* follow, and ocr_respond returns
ocr_extract(content_type, filename, available, key) ==
  /\ pc = "idle" /\ upload = <<>>
  /\ upload' = <<[content_type |-> content_type, filename |-> filename,
                  tesseract |-> available, api_key |-> key]>>
  /\ IF content_type = <<>> \/ content_type = <<"">>
     THEN /\ reply' = <<"ocr_extract", 400, <<"Invalid file">>>>
          /\ UNCHANGED <<engines, extracted, ocr>>
     ELSE IF IsDummyFile(filename)
     THEN /\ reply' = <<"ocr_extract", 200,
                        <<filename, "[Dummy data loaded]", "DUMMY_DATA">>>>
          /\ UNCHANGED <<engines, extracted, ocr>>
     ELSE \E run \in ImageRuns(available, key) :
            /\ engines' = run
            /\ extracted' = ImageResult(run)
            /\ IF ImageResult(run)[1] = "text"
               THEN /\ call' = "ocr_extract"
                    /\ ParseEntry(strip(ImageResult(run)[2]))
                    /\ UNCHANGED <<reply, max_fields, idx, candidates,
                                   used_names, result, history>>
               ELSE /\ reply' = <<"ocr_extract", 500,
                                  <<"OCR failed: " \o ImageResult(run)[2]>>>>
                    /\ UNCHANGED ocr
  /\ UNCHANGED <<USERS, SESSIONS, uuids, templates, responses, tts>>

\* lines 681-685 and line 257: the answer with the parsed fields
ocr_respond ==
  /\ pc = "parsed" /\ call = "ocr_extract"
  /\ reply' = <<"ocr_extract", 200, <<upload[1].filename, text, fields>>>>
  /\ pc' = "done"
  /\ UNCHANGED <<USERS, SESSIONS, uuids, templates, responses, tts, img,
                 call, text, max_fields, lines, i, fields, idx, candidates,
                 used_names, result, history>>

\* one upload
NextImage ==
  \/ \E c \in ContentTypes : \E f \in Filenames :
       \E available \in BOOLEAN : \E key \in BOOLEAN :
         ocr_extract(c, f, available, key)
  \/ KeyValueStep
  \/ TwoLineStep
  \/ NameFallback
  \/ DobFallback
  \/ AddressFallback
  \/ PincodeFallback
  \/ ocr_respond

SpecImage == Init /\ [][NextImage]_vars

\* ------------------------------------------------------------------------
\* Sessions

\* the header is "Bearer ", then t with nothing but whitespace around it
Carries(auth, t) ==
  /\ auth # <<>>
  /\ Len(auth[1]) >= 7 + Len(t)
  /\ SubSeq(auth[1], 1, 7) = "Bearer "
  /\ \E p \in 8..(Len(auth[1]) - Len(t) + 1) :
       /\ SubSeq(auth[1], p, p + Len(t) - 1) = t
       /\ \A q \in (8..(p - 1)) \cup ((p + Len(t))..Len(auth[1])) :
            Ch(auth[1], q) \in WHITESPACE

\* the tokens a header carries
Carried ==
  [auth \in Authorizations |->
     {Token(k) : k \in {n \in 1..MaxTokens : Carries(auth, Token(n))}}]
   

\* the tokens made so far
Issued == {Token(k) : k \in 1..uuids}

\* the tokens of live sessions
Live == Keys(SESSIONS)

\* the live token the header carries: <<>> when it carries none
LiveTokenOf(auth) ==
  IF Carried[auth] \cap Live = {} THEN <<>>
  ELSE <<CHOOSE t \in Carried[auth] \cap Live : TRUE>>

\* the step is a logout that succeeded with token t
LoggedOut(t) ==
  /\ reply' = <<"logout", 200, <<"ok">>>>
  /\ \E a \in Authorizations : t \in Carried[a] /\ logout(a)

\* a successful login or register makes a token never made before and a
\* session of the user for it
TokenIsOwners ==
  /\ \A u \in LoginNames : \A p \in Passwords :
       (reply'[1] = "login" /\ reply'[2] = 200 /\ login(u, p))
         => /\ Has(USERS, u) /\ Get(USERS, u).password = p
            /\ reply'[3][1] \notin Issued
            /\ Lookup(SESSIONS', reply'[3][1])
                 = <<[username |-> u, role |-> Get(USERS, u).role]>>
            /\ reply'[3][2] = Get(USERS, u).role
  /\ \A u \in RegisterNames : \A r \in RegisterRoles :
       (reply'[1] = "register" /\ reply'[2] = 200 /\ register(u, "pw", r))
         => /\ reply'[3][1] \notin Issued
            /\ Lookup(SESSIONS', reply'[3][1])
                 = <<[username |-> u, role |-> Get(USERS', u).role]>>
            /\ reply'[3][2] = Get(USERS', u).role

\* a live session stays as it is in every step but the logout with its
\* token, which removes it; a token that is not live is never live again
SessionUntilLogout ==
  \A k \in 1..MaxTokens :
    LET t == Token(k)
    IN /\ (t \in Live /\ ~LoggedOut(t))
            => Lookup(SESSIONS', t) = Lookup(SESSIONS, t)
       /\ (t \in Live /\ LoggedOut(t)) => ~Has(SESSIONS', t)
       /\ (t \in Issued \ Live) => ~Has(SESSIONS', t)

\* _require_session and _require_admin raise 401 for the headers without a
\* live token and for no other header (looked at in the states a handler
\* that writes the session table has left)
ChecksByToken ==
  \A a \in Authorizations :
    /\ (SessionError(a) = 401) <=> (LiveTokenOf(a) = <<>>)
    /\ (AdminError(a) = 401) <=> (LiveTokenOf(a) = <<>>)

\* me answers the session of the live token in the header, and 401 to
\* every other header; logout and the admin-only handlers answer 401 to
\* the headers without a live token and to no other header
AnswersByToken ==
  /\ reply'[1] = "me"
       => \A a \in Authorizations :
            me(a) => reply' = IF LiveTokenOf(a) = <<>>
                             THEN <<"me", 401, <<"Not authenticated">>>>
                             ELSE <<"me", 200,
                                    <<Get(SESSIONS, LiveTokenOf(a)[1]).username,
                                      Get(SESSIONS, LiveTokenOf(a)[1]).role>>>>
  /\ reply'[1] = "logout"
       => \A a \in Authorizations :
            logout(a) => (reply'[2] = 401 <=> LiveTokenOf(a) = <<>>)
  /\ reply'[1] = "ingest_form_template"
       => \A a \in Authorizations :
            ingest_form_template(a)
              => (reply'[2] = 401 <=> LiveTokenOf(a) = <<>>)
  /\ reply'[1] = "generate_form"
       => \A a \in Authorizations :
            generate_form(a) => (reply'[2] = 401 <=> LiveTokenOf(a) = <<>>)
  /\ reply'[1] = "gemini_generate_form"
       => \A a \in Authorizations :
            gemini_generate_form(a)
              => (reply'[2] = 401 <=> LiveTokenOf(a) = <<>>)
  /\ reply[1] \in {"none", "login", "register", "logout"} => ChecksByToken

\* C23: a token returned by a successful login or register authenticates
\* its owner (me returns that username and role) in every state until
\* logout is called with that token; after the logout the token is answered
\* 401 by me, by logout and by the checks every session-protected handler
\* starts with, and the other tokens stay valid.
TokenValidUntilLogout ==
  [][TokenIsOwners /\ SessionUntilLogout /\ AnswersByToken]_vars

\* C23 witness: the first token was logged out and the second is live
FirstTokenLoggedOutSecondLive ==
  /\ reply = <<"logout", 200, <<"ok">>>>
  /\ uuids = 2
  /\ Keys(SESSIONS) = {"t2"}

\* ------------------------------------------------------------------------
\* Form templates

\* the header carries the token of a live session of an admin
AdminHeader(auth) ==
  /\ LiveTokenOf(auth) # <<>>
  /\ Get(SESSIONS, LiveTokenOf(auth)[1]).role = "admin"

\* what a template handler answers to a header that is not an admin's
Refused(auth, handler) ==
  /\ reply'[2] = IF LiveTokenOf(auth) = <<>> THEN 401 ELSE 403
  /\ templates' = templates

\* a refused call of create_form, update_form or delete_form answers 401
\* without a live token and 403 with the token of a session that is not an
\* admin's, and leaves the templates as they are; the templates change in
\* no step but a call of one of the three with an admin's live token
TemplateStep ==
  /\ reply'[1] = "create_form"
       => \A a \in Authorizations :
            LET admin == AdminHeader(a)
            IN \A t \in Titles :
                 create_form(a, t)
                   => IF admin THEN reply'[2] = 200
                      ELSE Refused(a, "create_form")
  /\ reply'[1] = "update_form"
       => \A a \in Authorizations :
            LET admin == AdminHeader(a)
            IN \A f \in FormIds : \A t \in Titles :
                 update_form(a, f, t)
                   => IF admin THEN reply'[2] \in {200, 404}
                      ELSE Refused(a, "update_form")
  /\ reply'[1] = "delete_form"
       => \A a \in Authorizations :
            LET admin == AdminHeader(a)
            IN \A f \in FormIds :
                 delete_form(a, f)
                   => IF admin THEN reply'[2] \in {200, 404}
                      ELSE Refused(a, "delete_form")
  /\ templates' # templates
       => /\ reply'[1] \in {"create_form", "update_form", "delete_form"}
          /\ reply'[2] = 200
          /\ \E a \in Authorizations : AdminHeader(a)

\* C24: create_form, update_form and delete_form change the stored
\* templates only when called with the token of a live session whose role
\* is admin: with a missing, malformed or logged-out token they fail with
\* 401, with a session that is not an admin's with 403, and in both cases
\* the templates are unchanged.
TemplatesChangedByAdminOnly == [][TemplateStep]_vars

\* C24 witness: the user's live session was refused the deletion of a
\* template, and the seeded templates are all there
UserRefusedDelete ==
  /\ reply = <<"delete_form", 403, <<"Admin access required">>>>
  /\ templates = SeededTemplates
  /\ \E n \in 1..Len(SESSIONS) : SESSIONS[n][2].role = "user"

\* ------------------------------------------------------------------------
\* Form responses

\* the stored responses with this id under this form
Stored(form_id, response_id) ==
  {n \in 1..Len(responses) :
     responses[n].id = response_id /\ responses[n].form_id = form_id}

\* what a download of response n answers to the header
DownloadAnswer(auth, n) ==
  LET sess == Get(SESSIONS, LiveTokenOf(auth)[1])
  IN IF responses[n].username = sess.username \/ sess.role = "admin"
     THEN /\ reply'[2] \in {200, 500}
          /\ reply'[2] = 200 => reply'[3] = <<responses[n]>>
     ELSE /\ reply'[2] = 403
          /\ reply'[3] = <<"Not allowed to download this response">>

\* a download answers 401 without a live token and 404 when no such
\* response is stored; a stored response goes to its owner's and to an
\* admin's live session, every other live session gets 403
DownloadAnswers(auth, form_id, response_id) ==
  IF LiveTokenOf(auth) = <<>> THEN reply'[2] = 401
  ELSE IF Stored(form_id, response_id) = {} THEN reply'[2] = 404
  ELSE DownloadAnswer(auth, CHOOSE n \in Stored(form_id, response_id) : TRUE)

DownloadStep ==
  \A a \in TokenHeaders : \A f \in AskedFormIds : \A r \in ResponseIds :
    download_form_response(a, f, r) => DownloadAnswers(a, f, r)

DownloadPdfStep ==
  \A a \in TokenHeaders : \A f \in AskedFormIds : \A r \in ResponseIds :
    download_form_response_pdf(a, f, r) => DownloadAnswers(a, f, r)

\* a submit stores one response, of the session's user, for a live session
\* and a stored form, and stores nothing otherwise
SubmitStep ==
  \A a \in TokenHeaders : \A f \in SubmitFormIds :
    submit_form_response(a, f)
      => IF LiveTokenOf(a) = <<>>
         THEN reply'[2] = 401 /\ responses' = responses
         ELSE IF \A n \in 1..Len(templates) : templates[n].id # f
         THEN reply'[2] = 404 /\ responses' = responses
         ELSE /\ reply'[2] = 200
              /\ Len(responses') = Len(responses) + 1
              /\ SubSeq(responses', 1, Len(responses)) = responses
              /\ responses'[Len(responses')].form_id = f
              /\ responses'[Len(responses')].username
                   = Get(SESSIONS, LiveTokenOf(a)[1]).username

ResponseStep ==
  /\ reply'[1] = "download_form_response" => DownloadStep
  /\ reply'[1] = "download_form_response_pdf" => DownloadPdfStep
  /\ reply'[1] = "submit_form_response" => SubmitStep
  /\ responses' # responses
       => reply'[1] = "submit_form_response" /\ reply'[2] = 200

\* C25: a stored form response is returned by the JSON and the PDF download
\* only to a live session whose username is the response's or whose role is
\* admin, and any other live session gets 403; submit_form_response creates
\* a response only for a live session and an existing form, owned by the
\* session's username.
ResponseToOwnerOrAdmin == [][ResponseStep]_vars

\* C25 witness: the response of the demo user is stored and the live
\* session of the registered user was refused its download
OtherUserRefusedDownload ==
  /\ reply = <<"download_form_response", 403,
               <<"Not allowed to download this response">>>>
  /\ Len(responses) = 1 /\ responses[1].username = "user"
  /\ \E n \in 1..Len(SESSIONS) : SESSIONS[n][2].username = "eve"

\* ------------------------------------------------------------------------
\* Registration

\* the table is the old one with one more entry, the last
OneMore(old, new, key, value) ==
  /\ Len(new) = Len(old) + 1
  /\ SubSeq(new, 1, Len(old)) = old
  /\ new[Len(new)][1] \notin Keys(old)
  /\ key = <<>> \/ new[Len(new)][1] = key[1]
  /\ new[Len(new)][2] = value

\* a refused register answers 400 and changes neither table; an accepted
\* one adds the user with the normalized role and one session for it
RegisterAnswer(username, password, requested) ==
  LET role == NormalizedRole[requested]
  IN IF Has(USERS, username) \/ role \notin {"admin", "user"}
     THEN reply'[2] = 400 /\ USERS' = USERS /\ SESSIONS' = SESSIONS
     ELSE /\ reply'[2] = 200
          /\ OneMore(USERS, USERS', <<username>>,
                     [password |-> password, role |-> role])
          /\ OneMore(SESSIONS, SESSIONS', <<>>,
                     [username |-> username, role |-> role])
          /\ reply'[3] = <<SESSIONS'[Len(SESSIONS')][1], role>>

RegisterStep ==
  /\ \A n \in 1..Len(USERS) : Len(USERS') >= n /\ USERS'[n] = USERS[n]
  /\ reply'[1] = "register"
       => \A u \in RegisterNames : \A r \in RegisterRoles :
            register(u, "pw", r) => RegisterAnswer(u, "pw", r)

\* C26: register never changes an existing user: for a username already in
\* the user table, or a role that is not admin or user after lower-casing
\* and trimming, it fails with 400 and leaves the user table and the
\* session table unchanged; on success it adds exactly one user with the
\* requested role and exactly one session for it; the caller sends no
\* Authorization header.
RegisterAddsOneUser == [][RegisterStep]_vars

\* C26 witness: " Admin " was requested for a new username and the user was
\* added as an admin, with a session
RegisteredAsAdmin ==
  /\ reply[1] = "register" /\ reply[2] = 200 /\ reply[3][2] = "admin"
  /\ Has(USERS, "eve") /\ Get(USERS, "eve").role = "admin"
  /\ \E n \in 1..Len(SESSIONS) :
       SESSIONS[n][2] = [username |-> "eve", role |-> "admin"]

\* ------------------------------------------------------------------------
\* The speech cache

\* the key a call looks up and stores
SpeechKey(t, lang) == <<strip(t), lang>>

\* a call with no text raises ValueError and leaves the cache as it was
BlankSpeechRefused ==
  \A t \in SpeechTexts : \A lang \in SpeechLangs :
    synthesize_speech(t, lang) /\ IsBlank(t)
      => speech'[1] = "ValueError" /\ CACHE' = CACHE

\* C27: after every call of synthesize_speech (for a limit of at least 1)
\* the cache holds at most _CACHE_LIMIT entries, and a call with an empty or
\* whitespace-only text raises ValueError and leaves the cache unchanged.
CacheWithinLimit ==
  [][Len(CACHE') <= CACHE_LIMIT /\ BlankSpeechRefused]_vars

\* C27 witness: more keys were stored than the cache holds, the cache is
\* full, and the last call, with no text, was refused
BlankRefusedOnFullCache ==
  /\ speech[1] = "ValueError"
  /\ Len(CACHE) = CACHE_LIMIT
  /\ Cardinality({uses[n] : n \in 1..Len(uses)}) > CACHE_LIMIT

\* the calls that stored or hit the key
UsesOf(key) == {n \in 1..Len(uses) : uses[n] = key}

\* the last call that stored or hit the key
LastUse(key) == CHOOSE n \in UsesOf(key) : \A m \in UsesOf(key) : m <= n

\* the cache holds the keys used last, the least recently used first
LeastRecentFirst ==
  /\ \A n \in 1..Len(CACHE) : UsesOf(CACHE[n][1]) # {}
  /\ \A n \in 1..Len(CACHE) - 1 :
       LastUse(CACHE[n][1]) < LastUse(CACHE[n + 1][1])
  /\ \A m \in 1..Len(uses) :
       uses[m] \notin Keys(CACHE)
         => /\ Len(CACHE) = CACHE_LIMIT
            /\ \A n \in 1..Len(CACHE) : LastUse(uses[m]) < LastUse(CACHE[n][1])

\* a hit returns the bytes stored, with no synthesis, and keeps them; a miss
\* synthesizes; either makes the key the most recent, and the only key that
\* may leave the cache is the least recent one
SpeechAnswer(key) ==
  /\ Has(CACHE, key) => speech' = <<"bytes", Get(CACHE, key), FALSE>>
  /\ ~Has(CACHE, key) => speech'[3]
  /\ speech'[1] = "bytes"
       => /\ CACHE'[Len(CACHE')] = <<key, speech'[2]>>
          /\ uses' = Append(uses, key)
          /\ \A gone \in Keys(CACHE) \ Keys(CACHE') : gone = CACHE[1][1]
          /\ \A n \in 1..Len(CACHE) :
               CACHE[n][1] \in Keys(CACHE') \ {key}
                 => Get(CACHE', CACHE[n][1]) = CACHE[n][2]
  /\ speech'[1] # "bytes" => CACHE' = CACHE /\ uses' = uses

SpeechStep ==
  \A t \in SpeechTexts : \A lang \in SpeechLangs :
    synthesize_speech(t, lang) /\ ~IsBlank(t)
      => SpeechAnswer(SpeechKey(t, lang))

\* C28: the cache evicts in least-recently-used order over (trimmed text,
\* lang) keys: an insertion and a hit both make the key the most recent, a
\* hit returns the stored bytes without synthesizing again, and when the
\* limit is exceeded the key evicted is the one whose last insertion or hit
\* is the oldest.
CacheEvictsLeastRecentlyUsed == []LeastRecentFirst /\ [][SpeechStep]_vars

\* C28 witness: a key is in the cache although a key stored after it has
\* been evicted: a hit made the older key the more recent one
HitKeptOlderKey ==
  \E n \in 1..Len(CACHE) : \E m \in 1..Len(uses) :
    /\ uses[m] \notin Keys(CACHE)
    /\ \E first \in UsesOf(CACHE[n][1]) : first < m /\ UsesOf(uses[m]) = {m}

\* ------------------------------------------------------------------------
\* Seed templates

\* no seed title is the title of two stored templates
NoSeedTitleTwice ==
  \A n \in 1..Len(SeedTitles) :
    Cardinality(TitleRows(templates, SeedTitles[n])) <= 1

\* the rows added by the step, as titles
AddedTitles == [n \in 1..(Len(templates') - Len(templates)) |->
                  templates'[Len(templates) + n].title]

\* the step keeps the stored rows and adds rows after them
RowsKept ==
  /\ Len(templates') >= Len(templates)
  /\ SubSeq(templates', 1, Len(templates)) = templates

\* the public seed adds the seed templates to an empty table and nothing to
\* any other; the admin seed adds the seed templates whose title is not
\* stored, once each, and nothing without an admin's session
SeedStep ==
  /\ reply'[1] = "public_seed_templates"
       => /\ RowsKept
          /\ AddedTitles = IF templates = <<>> THEN SeedTitles ELSE <<>>
  /\ reply'[1] = "seed_templates"
       => /\ RowsKept
          /\ \A n \in 1..Len(AddedTitles) :
               TitleRows(templates, AddedTitles[n]) = {}
          /\ reply'[2] = 200
               => \A n \in 1..Len(SeedTitles) :
                    Cardinality(TitleRows(templates', SeedTitles[n])) = 1
          /\ reply'[2] # 200 => templates' = templates

\* C29: over any sequence of public-seed and admin-seed calls interleaved
\* with template deletions (no create, no update) no seed title is ever
\* stored twice: the public seed adds the seed templates only when the table
\* is empty and the admin seed adds only the seed templates whose title is
\* not already stored.
SeedTitlesStoredOnce == []NoSeedTitleTwice /\ [][SeedStep]_vars

\* C29 witness: one seed template had been deleted and the admin seed added
\* that one only, after the one that was kept
AdminSeedAddedTheMissing ==
  /\ reply = <<"seed_templates", 200, <<SeedCount - 1, 1, SeedCount>>>>
  /\ Len(templates) = SeedCount
  /\ templates[Len(templates)].id > SeedCount
  /\ NoSeedTitleTwice

\* ------------------------------------------------------------------------
\* OCR of an uploaded image

\* the upload reached _extract_text_from_image
ImagePath ==
  /\ upload # <<>>
  /\ upload[1].content_type \notin {<<>>, <<"">>}
  /\ ~IsDummyFile(upload[1].filename)

\* the engine calls that returned a text
Returned == {n \in 1..Len(engines) : engines[n][2] = "text"}

\* Tesseract is called first when it is available and not at all when it is
\* not
TesseractFirst ==
  IF upload[1].tesseract
  THEN engines # <<>> /\ engines[1][1] = "tesseract"
  ELSE \A n \in 1..Len(engines) : engines[n][1] # "tesseract"

\* OCR.space is called only with a key, as the last call, and only when
\* Tesseract is unavailable or has raised
SpaceOnlyAsFallback ==
  \A n \in 1..Len(engines) :
    engines[n][1] = "ocr_space"
      => /\ upload[1].api_key
         /\ n = Len(engines)
         /\ IF upload[1].tesseract
            THEN n = 2 /\ engines[1][2] # "text"
            ELSE n = 1

\* a call in which no engine returned a text has raised, nothing was parsed
\* and the handler has answered 500 with the message of the exception
FailedOcrAnswers500 ==
  Returned = {}
    => /\ extracted # <<>> /\ extracted[1] # "text"
       /\ call = "none" /\ fields = <<>>
       /\ reply = <<"ocr_extract", 500, <<"OCR failed: " \o extracted[2]>>>>

\* the exception is a RuntimeError unless it is the one OCR.space's answer
\* raised in response.json()
RaisedClass ==
  Returned = {}
    => \/ extracted[1] = "RuntimeError"
       \/ /\ extracted[1] = "JSONDecodeError"
          /\ engines[Len(engines)] =
               <<"ocr_space", "JSONDecodeError", extracted[2]>>

\* a text that an engine returned, blank or not, is parsed and answered
\* with 200, the stripped text and its fields
ReturnedTextAnswered ==
  Returned # {}
    => /\ Returned = {Len(engines)}
       /\ extracted = <<"text", engines[Len(engines)][3]>>
       /\ call = "ocr_extract" /\ text = strip(extracted[2])
       /\ reply[2] # 500
       /\ pc = "done"
            => reply = <<"ocr_extract", 200,
                         <<upload[1].filename, text, fields>>>>

\* C30: for an image, Tesseract is tried first whenever it is available;
\* OCR.space is called only when Tesseract is unavailable or raised and an
\* API key is configured; when no engine returns a text the call raises
\* (RuntimeError, or the exception of an OCR.space answer that is not
\* JSON), extract_fields_from_document re-raises it as RuntimeError('OCR
\* failed: ...') and the handler answers 500, with no field map.
FailedImageOcrIs500 ==
  ImagePath
    => /\ TesseractFirst
       /\ SpaceOnlyAsFallback
       /\ FailedOcrAnswers500
       /\ RaisedClass
       /\ ReturnedTextAnswered

\* C30 witness: Tesseract raised, OCR.space was called with the key and its
\* answer was not JSON; the handler answered 500
SpaceAnswerNotJson ==
  /\ ImagePath
  /\ Len(engines) = 2 /\ engines[1][1] = "tesseract"
  /\ extracted[1] = "JSONDecodeError"
  /\ reply[2] = 500

\* C30 as stated: when neither engine yields a text the call raises
\* RuntimeError
FailedImageOcrRaisesRuntimeError ==
  ImagePath
    => /\ TesseractFirst
       /\ SpaceOnlyAsFallback
       /\ FailedOcrAnswers500
       /\ Returned = {} => extracted[1] = "RuntimeError"
====
